---- MODULE Spec2Model ----
(***************************************************************************)
(* Health-data analysis backend: the LLM insight agent (gemini_agent.py),  *)
(* the multi-agent orchestrator (multi_agent_system.py) and the session    *)
(* and memory store (session_memory.py).                                   *)
(*                                                                         *)
(* Conventions.                                                            *)
(*  - A Python number is an integer count of tenths (7.5 hours is 75);     *)
(*    Tenths(n) writes the source's integer literal n in that unit.  A     *)
(*    score is kept in thousandths (Milli) where the code does not round.  *)
(*  - A Python str produced by the completion service is a sequence of     *)
(*    tokens: the two brace characters, the newline, words, and JSON       *)
(*    members ("key": value, with the separator it needs).                 *)
(*  - A dict is a function; d.get(k, default) is Get(d, k, default).       *)
(***************************************************************************)
EXTENDS Integers, Sequences, FiniteSets, TLC

VARIABLES
    g_pc,            \* generate_health_insights: idle | awaiting | returned | raised
    g_data,          \* its health_data argument
    g_ret,           \* the value it returned
    calls,           \* analyze_health_data: each call's position and locals
    trend_memory,    \* agents['trend'].memory
    anomaly_memory,  \* agents['anomaly'].memory
    insight_memory,  \* agents['insight'].memory
    session_memory,  \* MultiAgentHealthSystem.session_memory
    now,             \* datetime.now(), in ticks
    clock_steps,     \* how often the clock has advanced
    service_calls,   \* how many calls the session service and its manager served
    finalized,       \* history: per session id, the session finalize_session stored
                     \* last and how often it stored one
    evicted,         \* history: the ids cleanup_expired_sessions has removed
    active_sessions, \* InMemorySessionService.active_sessions
    session_state,   \* InMemorySessionService.session_state
    sessions_table,  \* MemoryBank: the rows of table sessions
    user_patterns,   \* MemoryBank: the rows of table user_patterns
    r_call,          \* a rule-based function called on its own: which one
    r_input,         \* its argument
    r_output,        \* what it returned, or that it raised
    spans,           \* HealthAnalysisTracer.spans
    active_spans,    \* HealthAnalysisTracer.active_spans
    collector_metrics, \* MetricsCollector.metrics (a local of the Trend Detector has the name)
    counters,        \* MetricsCollector.counters
    traced,          \* the calls of a trace_operation wrapper, in the order they began
    system_health,   \* what get_system_health returned last
    GEMINI_AVAILABLE, \* main.py and navbar_ai.py: the completion library was imported
    GENAI_AVAILABLE, \* multi_agent.py: it was imported and configured
    nav_pc,          \* an /ai/* request: idle | awaiting | answered
    nav_request,     \* its endpoint and body
    nav_completion,  \* what the completion service did for it
    nav_response,    \* the HTTP response
    DATA_STORE,      \* main.py: data id -> the stored upload
    SESSIONS,        \* main.py: user id -> the list of its data ids
    METRICS,         \* main.py: the upload counter and the time of the last upload
    store_log,       \* history: the data ids in the order they were stored
    requests         \* main.py: the requests being handled, and direct calls of
                     \* run_agents_in_parallel, each with its position and locals

gvars == <<g_pc, g_data, g_ret>>
ovars == <<calls, trend_memory, anomaly_memory, insight_memory, session_memory>>
mvars == <<now, clock_steps, service_calls, finalized, evicted, active_sessions, session_state,
           sessions_table, user_patterns>>
rvars == <<r_call, r_input, r_output>>
tvars == <<spans, active_spans, collector_metrics, counters, traced, system_health>>
ivars == <<GEMINI_AVAILABLE, GENAI_AVAILABLE>>
nvars == <<nav_pc, nav_request, nav_completion, nav_response>>
bvars == <<DATA_STORE, SESSIONS, METRICS, store_log, requests>>
xvars == <<tvars, ivars, nvars, bvars>>
vars == <<gvars, ovars, mvars, rvars, xvars>>

----------------------------------------------------------------------------
(* Bounds of the model *)

MaxTextLen == 3
MaxClockSteps == 1
MaxServiceCalls == 4
MaxSeriesLen == 3

----------------------------------------------------------------------------
(* Python helpers *)

Tenths(n) == 10 * n
Milli(n) == 1000 * n

\* A local variable or field that holds nothing yet
NoValue == << >>

Get(d, k, default) == IF k \in DOMAIN d THEN d[k] ELSE default

Min(a, b) == IF a < b THEN a ELSE b
Max(a, b) == IF a > b THEN a ELSE b
Abs(a) == IF a < 0 THEN -a ELSE a

\* str.find(c): 0-based index of the first occurrence, -1 when there is none
Find(s, c) ==
    IF \E i \in 1..Len(s) : s[i] = c
    THEN (CHOOSE i \in 1..Len(s) : s[i] = c /\ \A j \in 1..(i-1) : s[j] # c) - 1
    ELSE -1

\* str.rfind(c): 0-based index of the last occurrence, -1 when there is none
RFind(s, c) ==
    IF \E i \in 1..Len(s) : s[i] = c
    THEN (CHOOSE i \in 1..Len(s) : s[i] = c /\ \A j \in (i+1)..Len(s) : s[j] # c) - 1
    ELSE -1

\* s[start:end] for 0 <= start and 0 <= end <= len(s)
Slice(s, start, end) ==
    IF end > start THEN SubSeq(s, start + 1, end) ELSE <<>>

\* the elements of a list
Range(seq) == {seq[i] : i \in 1..Len(seq)}

\* x[:n] of a list or str
Prefix(s, n) == SubSeq(s, 1, Min(n, Len(s)))

----------------------------------------------------------------------------
(* JSON values.  kind: absent (no such key) | null | num | str | list |    *)
(* date (a datetime.date object, which json.dumps cannot serialise).  n is  *)
(* the number in thousandths; items are the elements of a list, or the     *)
(* characters of a str, each a sequence of tokens.                         *)

JVal(kind, n, items) == [kind |-> kind, n |-> n, items |-> items]
JAbsent == JVal("absent", 0, <<>>)
JNull == JVal("null", 0, <<>>)
JNum(n) == JVal("num", n, <<>>)
JStr(chars) == JVal("str", 0, chars)
JList(items) == JVal("list", 0, items)

\* The members a response may carry
MemberTokens ==
    {"ws=82", "ws=150", "ws=str", "ws=null",
     "recs=list", "recs=num", "recs=null", "recs=str",
     "risks=list", "risks=num", "summary=str"}

MemberKey(tok) ==
    CASE tok \in {"ws=82", "ws=150", "ws=str", "ws=null"} -> "wellness_score"
      [] tok \in {"recs=list", "recs=num", "recs=null", "recs=str"} -> "recommendations"
      [] tok \in {"risks=list", "risks=num"} -> "risks"
      [] OTHER -> "summary"

MemberVal(tok) ==
    CASE tok = "ws=82" -> JNum(Milli(82))
      [] tok = "ws=150" -> JNum(Milli(150))
      [] tok = "ws=str" -> JStr(<< <<"h">>, <<"i">> >>)
      [] tok = "ws=null" -> JNull
      [] tok = "recs=list" ->
            JList(<< <<"walk">>, <<"sleep">>, <<"drink">>, <<"rest">> >>)
      [] tok = "recs=num" -> JNum(Milli(5))
      [] tok = "recs=null" -> JNull
      [] tok = "recs=str" -> JStr(<< <<"w">>, <<"a">>, <<"l">>, <<"k">> >>)
      [] tok = "risks=list" ->
            JList(<< <<"risk", "a">>, <<"risk", "b">>, <<"risk", "c">> >>)
      [] tok = "risks=num" -> JNum(Milli(1))
      [] OTHER -> JStr(<< <<"o">>, <<"k">> >>)

InsightKeys ==
    {"wellness_score", "recommendations", "risks", "positive_patterns", "summary"}

\* json.loads succeeds on the token sequence: an object of members
JsonDecodes(s) ==
    /\ Len(s) >= 2
    /\ s[1] = "{"
    /\ s[Len(s)] = "}"
    /\ \A i \in 2..(Len(s) - 1) : s[i] \in MemberTokens

\* json.loads: the decoded dict (a repeated key keeps its last value)
JsonLoads(s) ==
    LET keys == {MemberKey(s[i]) : i \in 2..(Len(s) - 1)}
        last(k) == CHOOSE i \in 2..(Len(s) - 1) :
                      /\ MemberKey(s[i]) = k
                      /\ \A j \in (i+1)..(Len(s) - 1) : MemberKey(s[j]) # k
    IN [k \in keys |-> MemberVal(s[last(k)])]

\* keyword in tok.lower(): the member tokens spell their key out
TokHas(tok, keyword) ==
    CASE keyword = "recommend" ->
            tok \in {"recommend", "Recommend", "recs=list", "recs=num", "recs=null", "recs=str"}
      [] keyword = "risk" -> tok \in {"risk", "Risk", "risks=list", "risks=num"}
      [] keyword = "positive" -> tok \in {"positive"}
      [] keyword = "good" -> tok \in {"good"}
      [] OTHER -> FALSE

LineHas(line, keyword) == \E i \in 1..Len(line) : TokHas(line[i], keyword)

\* text.split('\n')
RECURSIVE SplitLines(_)
SplitLines(text) ==
    LET p == Find(text, "nl")
    IN IF p = -1 THEN <<text>>
       ELSE <<SubSeq(text, 1, p)>> \o SplitLines(SubSeq(text, p + 2, Len(text)))

\* a scan that lists a line under every class whose keyword it contains
RECURSIVE SelectLinesEvery(_, _)
SelectLinesEvery(lines, class) ==
    IF lines = <<>> THEN <<>>
    ELSE LET line == Head(lines)
             in_class ==
                CASE class = "recommendations" -> LineHas(line, "recommend")
                  [] class = "risks" -> LineHas(line, "risk")
                  [] OTHER -> LineHas(line, "positive") \/ LineHas(line, "good")
         IN (IF in_class THEN <<line>> ELSE <<>>) \o SelectLinesEvery(Tail(lines), class)

\* the lines the if/elif chain of _extract_insights_from_text appends to class
RECURSIVE SelectLines(_, _)
SelectLines(lines, class) ==
    IF lines = <<>> THEN <<>>
    ELSE LET line == Head(lines)
             c == IF LineHas(line, "recommend") THEN "recommendations"
                  ELSE IF LineHas(line, "risk") THEN "risks"
                  ELSE IF LineHas(line, "positive") \/ LineHas(line, "good")
                       THEN "positive_patterns"
                  ELSE "none"
         IN (IF c = class THEN <<line>> ELSE <<>>) \o SelectLines(Tail(lines), class)

----------------------------------------------------------------------------
(* gemini_agent.py: GeminiHealthAgent *)

_extract_insights_from_text(text) ==
    LET lines == SplitLines(text)
    IN [wellness_score |-> JNum(Milli(75)),
        recommendations |-> JList(SelectLines(lines, "recommendations")),
        risks |-> JList(SelectLines(lines, "risks")),
        positive_patterns |-> JList(SelectLines(lines, "positive_patterns")),
        summary |-> JStr(<< <<"Analysis completed">> >>)]

_parse_gemini_response(response_text) ==
    LET start == Find(response_text, "{")
        end == RFind(response_text, "}") + 1
    IN IF start # -1 /\ end # -1
       THEN LET json_str == Slice(response_text, start, end)
            IN IF JsonDecodes(json_str) THEN JsonLoads(json_str)
               ELSE _extract_insights_from_text(response_text)
       ELSE _extract_insights_from_text(response_text)

\* the same sum without min and max
FallbackScoreUnclamped(steps, sleep, hr) ==
    steps + 1000 * sleep + (Milli(100) - 100 * hr)

\* min(100, max(0, steps/100 + sleep*10 + (100 - hr))), in thousandths
FallbackScore(steps, sleep, hr) ==
    Min(Milli(100), Max(0, steps + 1000 * sleep + (Milli(100) - 100 * hr)))

_fallback_insights(data) ==
    LET summary == Get(data, "summary", << >>)
        steps == Get(summary, "steps_avg_7d", 0)
        sleep == Get(summary, "sleep_avg_7d", 0)
        hr == Get(summary, "heart_rate_avg_7d", 0)
        recommendations ==
            (IF steps < Tenths(8000) THEN << <<"Increase daily steps to 8,000+">> >> ELSE <<>>)
            \o (IF sleep < Tenths(7) THEN << <<"Aim for 7-9 hours of sleep">> >> ELSE <<>>)
            \o (IF hr > Tenths(85) THEN << <<"Monitor heart rate patterns">> >> ELSE <<>>)
    IN [wellness_score |-> JNum(FallbackScore(steps, sleep, hr)),
        recommendations |-> JList(Prefix(recommendations, 3)),
        risks |-> JList(<< <<"Insufficient data for risk assessment">> >>),
        positive_patterns |-> JList(<< <<"Regular health monitoring">> >>),
        summary |-> JStr(<< <<"Basic health assessment completed">> >>)]

\* day values that are datetime.date objects, not str
DateObjects == {"date(2024-01-02)"}

\* json.dumps(anomalies) raises TypeError on a value it cannot serialise
JsonDumpsRaises(anomalies) ==
    \E i \in 1..Len(anomalies) : anomalies[i].date \in DateObjects

\* _create_health_prompt raises: it runs before the try block
_create_health_prompt_raises(data) ==
    JsonDumpsRaises(Get(Get(data, "agent_results", << >>), "anomalies", <<>>))

\* A completion call: it raises, or response.text is completion.text
CompletionRaises == [raises |-> TRUE, text |-> <<>>]
CompletionText(text) == [raises |-> FALSE, text |-> text]

\* The value generate_health_insights returns once the completion call ended
generate_health_insights(health_data, completion) ==
    IF completion.raises
    THEN [status |-> "error",
          error |-> "completion",
          insights |-> _fallback_insights(health_data)]
    ELSE [status |-> "success",
          insights |-> _parse_gemini_response(completion.text),
          confidence |-> 9,
          source |-> "gemini-pro"]

----------------------------------------------------------------------------
(* multi_agent_system.py: the rule-based agents.  A health record is       *)
(* [day, metric, vkind, value]: vkind is num (value, in tenths), str (a    *)
(* value that is not a number) or missing (the record has no 'value').     *)

Record(day, metric, vkind, value) ==
    [day |-> day, metric |-> metric, vkind |-> vkind, value |-> value]

Anomaly(day, metric, value, severity, message) ==
    [date |-> day, metric |-> metric, value |-> value,
     severity |-> severity, message |-> message]

Metrics == <<"steps", "heart_rate", "sleep", "water">>

\* [item for item in metrics if item.get('metric') == metric_name]
RECURSIVE MetricData(_, _)
MetricData(timeseries, metric_name) ==
    IF timeseries = <<>> THEN <<>>
    ELSE (IF Head(timeseries).metric = metric_name THEN <<Head(timeseries)>> ELSE <<>>)
         \o MetricData(Tail(timeseries), metric_name)

\* round(a / b, 0) for b > 0: to the nearest integer, a tie to the even one
RoundDiv(a, b) ==
    LET q == a \div b
        r == a - q * b
    IN IF 2 * r < b THEN q
       ELSE IF 2 * r > b THEN q + 1
       ELSE IF q % 2 = 0 THEN q ELSE q + 1

\* item['value'] raises KeyError on a record without value; the comparisons
\* values[-1] > values[0] and values[0] > 0 raise TypeError on a str
TrendMetricRaises(metric_data) ==
    /\ Len(metric_data) >= 2
    /\ \/ \E i \in 1..Len(metric_data) : metric_data[i].vkind = "missing"
       \/ metric_data[1].vkind = "str"
       \/ metric_data[Len(metric_data)].vkind = "str"

_get_recommendation(metric, trend, first, last) ==
    \* abs(change) > 10, with change = (last - first) / first * 100 or 0
    LET big == first > 0 /\ Abs(last - first) * 100 > 10 * first
    IN IF metric = "steps" /\ trend = "decreasing"
       THEN "Consider increasing daily physical activity"
       ELSE IF metric = "sleep" /\ trend = "decreasing"
       THEN "Focus on improving sleep hygiene"
       ELSE IF metric = "heart_rate" /\ big
       THEN "Monitor heart rate patterns closely"
       ELSE "Maintain current healthy patterns"

\* the entry of one metric with at least 2 observations; change_percent in hundredths
TrendEntry(metric_name, metric_data) ==
    LET first == metric_data[1].value
        last == metric_data[Len(metric_data)].value
        trend == IF last > first THEN "increasing" ELSE "decreasing"
    IN [trend |-> trend,
        change_percent |-> IF first > 0 THEN RoundDiv((last - first) * 10000, first) ELSE 0,
        recommendation |-> _get_recommendation(metric_name, trend, first, last)]

TrendAnalysisAgent_raises(data) ==
    \E m \in 1..Len(Metrics) :
        TrendMetricRaises(MetricData(Get(data, "timeseries", <<>>), Metrics[m]))

\* a Trend Detector that is content with one observation
TrendAnalysisAgent_analyze_single(data) ==
    LET metrics == Get(data, "timeseries", <<>>)
        present == {m \in 1..Len(Metrics) : Len(MetricData(metrics, Metrics[m])) >= 1}
    IN [trends |-> [name \in {Metrics[m] : m \in present} |->
                        TrendEntry(name, MetricData(metrics, name))],
        confidence |-> 85]

TrendAnalysisAgent_analyze(data) ==
    LET metrics == Get(data, "timeseries", <<>>)
        present == {m \in 1..Len(Metrics) : Len(MetricData(metrics, Metrics[m])) >= 2}
    IN [trends |-> [name \in {Metrics[m] : m \in present} |->
                        TrendEntry(name, MetricData(metrics, name))],
        confidence |-> 85]

\* item.get('value', 0)
ItemValue(item) == IF item.vkind = "missing" THEN 0 ELSE item.value

\* value > 100, value < 5, value < 3000 raise TypeError on a str
AnomalyDetectionAgent_raises(data) ==
    LET timeseries == Get(data, "timeseries", <<>>)
    IN \E i \in 1..Len(timeseries) :
          /\ timeseries[i].vkind = "str"
          /\ timeseries[i].metric \in {"heart_rate", "sleep", "steps"}

\* a scan whose heart-rate rule includes the threshold itself
RECURSIVE ScanAnomaliesInclusive(_)
ScanAnomaliesInclusive(timeseries) ==
    IF timeseries = <<>> THEN <<>>
    ELSE LET item == Head(timeseries)
             value == ItemValue(item)
             found ==
                IF item.metric = "heart_rate" /\ value >= Tenths(100)
                THEN << Anomaly(item.day, item.metric, value, "high",
                                "Elevated resting heart rate detected") >>
                ELSE IF item.metric = "sleep" /\ value < Tenths(5)
                THEN << Anomaly(item.day, item.metric, value, "medium",
                                "Insufficient sleep duration") >>
                ELSE IF item.metric = "steps" /\ value < Tenths(3000)
                THEN << Anomaly(item.day, item.metric, value, "low",
                                "Low daily activity level") >>
                ELSE <<>>
         IN found \o ScanAnomaliesInclusive(Tail(timeseries))

\* a scan that ends at the first water record
RECURSIVE ScanAnomaliesUntilWater(_)
ScanAnomaliesUntilWater(timeseries) ==
    IF timeseries = <<>> \/ Head(timeseries).metric = "water" THEN <<>>
    ELSE LET item == Head(timeseries)
             value == ItemValue(item)
             found ==
                IF item.metric = "heart_rate" /\ value > Tenths(100)
                THEN << Anomaly(item.day, item.metric, value, "high",
                                "Elevated resting heart rate detected") >>
                ELSE IF item.metric = "sleep" /\ value < Tenths(5)
                THEN << Anomaly(item.day, item.metric, value, "medium",
                                "Insufficient sleep duration") >>
                ELSE IF item.metric = "steps" /\ value < Tenths(3000)
                THEN << Anomaly(item.day, item.metric, value, "low",
                                "Low daily activity level") >>
                ELSE <<>>
         IN found \o ScanAnomaliesUntilWater(Tail(timeseries))

RECURSIVE ScanAnomalies(_)
ScanAnomalies(timeseries) ==
    IF timeseries = <<>> THEN <<>>
    ELSE LET item == Head(timeseries)
             metric == item.metric
             value == ItemValue(item)
             found ==
                IF metric = "heart_rate" /\ value > Tenths(100)
                THEN << Anomaly(item.day, metric, value, "high",
                                "Elevated resting heart rate detected") >>
                ELSE IF metric = "sleep" /\ value < Tenths(5)
                THEN << Anomaly(item.day, metric, value, "medium",
                                "Insufficient sleep duration") >>
                ELSE IF metric = "steps" /\ value < Tenths(3000)
                THEN << Anomaly(item.day, metric, value, "low",
                                "Low daily activity level") >>
                ELSE <<>>
         IN found \o ScanAnomalies(Tail(timeseries))

\* risk_score = len(anomalies) * 0.2, in tenths
AnomalyDetectionAgent_analyze(data) ==
    LET anomalies == ScanAnomalies(Get(data, "timeseries", <<>>))
    IN [anomalies |-> anomalies, risk_score |-> Len(anomalies) * 2]

----------------------------------------------------------------------------
(* multi_agent_system.py: InsightGeneratorAgent *)

\* One point of the wellness score is PointUnits(1) units, so that steps/500,
\* water/100, |sleep-8|*5 and |hr-70|*2 of values in tenths are whole numbers
PointUnits(p) == 5000 * p

StepsScore(steps) ==
    IF steps >= Tenths(10000) THEN PointUnits(25)
    ELSE IF steps >= Tenths(8000) THEN PointUnits(20)
    ELSE IF steps >= Tenths(5000) THEN PointUnits(15)
    ELSE Max(0, steps)

\* a sleep score without max(0, ...)
SleepScoreUnfloored(sleep) ==
    IF Tenths(7) <= sleep /\ sleep <= Tenths(9) THEN PointUnits(25)
    ELSE IF (Tenths(6) <= sleep /\ sleep < Tenths(7)) \/ (Tenths(9) < sleep /\ sleep <= Tenths(10))
    THEN PointUnits(20)
    ELSE PointUnits(25) - Abs(sleep - Tenths(8)) * 2500

SleepScore(sleep) ==
    IF Tenths(7) <= sleep /\ sleep <= Tenths(9) THEN PointUnits(25)
    ELSE IF (Tenths(6) <= sleep /\ sleep < Tenths(7)) \/ (Tenths(9) < sleep /\ sleep <= Tenths(10))
    THEN PointUnits(20)
    ELSE Max(0, PointUnits(25) - Abs(sleep - Tenths(8)) * 2500)

\* a heart-rate score without max(0, ...)
HeartRateScoreUnfloored(hr) ==
    IF Tenths(60) <= hr /\ hr <= Tenths(80) THEN PointUnits(25)
    ELSE IF (Tenths(50) <= hr /\ hr < Tenths(60)) \/ (Tenths(80) < hr /\ hr <= Tenths(90))
    THEN PointUnits(20)
    ELSE PointUnits(25) - Abs(hr - Tenths(70)) * 1000

HeartRateScore(hr) ==
    IF Tenths(60) <= hr /\ hr <= Tenths(80) THEN PointUnits(25)
    ELSE IF (Tenths(50) <= hr /\ hr < Tenths(60)) \/ (Tenths(80) < hr /\ hr <= Tenths(90))
    THEN PointUnits(20)
    ELSE Max(0, PointUnits(25) - Abs(hr - Tenths(70)) * 1000)

WaterScore(water) ==
    IF water >= Tenths(2000) THEN PointUnits(25)
    ELSE IF water >= Tenths(1500) THEN PointUnits(20)
    ELSE Max(0, water * 5)

\* round((score / factors) * 100, 1) with factors = 100: the score in tenths
_calculate_wellness_score(summary) ==
    LET score == StepsScore(Get(summary, "steps_avg_7d", 0))
                 + SleepScore(Get(summary, "sleep_avg_7d", 0))
                 + HeartRateScore(Get(summary, "heart_rate_avg_7d", 0))
                 + WaterScore(Get(summary, "water_avg_7d", 0))
    IN RoundDiv(score, 500)

Insight(type, title, message, priority) ==
    [type |-> type, title |-> title, message |-> message, priority |-> priority]

_basic_analysis(data) ==
    LET summary == Get(data, "summary", << >>)
        avg_steps == Get(summary, "steps_avg_7d", 0)
        avg_sleep == Get(summary, "sleep_avg_7d", 0)
        insights ==
            (IF avg_steps < Tenths(5000)
             THEN << Insight("warning", "Increase Daily Activity",
                             <<"Consider increasing from", ToString(RoundDiv(avg_steps, 10)),
                               "to 8,000+ steps daily.">>, "medium") >>
             ELSE <<>>)
            \o (IF avg_sleep < Tenths(7)
                THEN << Insight("warning", "Sleep Optimization Needed",
                                <<"Current", ToString(avg_sleep),
                                  "tenths h average is below recommended 7-9 hours.">>,
                                "high") >>
                ELSE <<>>)
    IN [insights |-> insights,
        wellness_score |-> JNum(100 * _calculate_wellness_score(summary)),
        ai_powered |-> FALSE]

\* x[:n] raises TypeError unless x is a list or a str
SliceRaises(v) == v.kind \notin {"list", "str"}

RECURSIVE AsInsights(_, _, _, _)
AsInsights(items, type, title, priority) ==
    IF items = <<>> THEN <<>>
    ELSE << Insight(type, title, Head(items), priority) >>
         \o AsInsights(Tail(items), type, title, priority)

\* the try block of _analyze raises
InsightTryRaises(data, completion) ==
    \/ _create_health_prompt_raises(data)
    \/ LET gemini_result == generate_health_insights(data, completion)
           gemini_insights == gemini_result.insights
       IN /\ gemini_result.status = "success"
          /\ \/ SliceRaises(Get(gemini_insights, "recommendations", JList(<<>>)))
             \/ SliceRaises(Get(gemini_insights, "risks", JList(<<>>)))

\* the value the try block of _analyze returns when it does not raise
InsightTryValue(data, completion) ==
    LET gemini_result == generate_health_insights(data, completion)
        gemini_insights == gemini_result.insights
        recs == Get(gemini_insights, "recommendations", JList(<<>>)).items
        risks == Get(gemini_insights, "risks", JList(<<>>)).items
    IN IF gemini_result.status = "success"
       THEN [insights |->
                AsInsights(Prefix(recs, 3), "recommendation", "AI Recommendation", "medium")
                \o AsInsights(Prefix(risks, 2), "warning", "Health Risk", "high"),
             wellness_score |-> Get(gemini_insights, "wellness_score", JNum(Milli(75))),
             gemini_summary |-> Get(gemini_insights, "summary", JStr(<<>>)),
             ai_powered |-> TRUE]
       ELSE _basic_analysis(data)

\* _analyze without its except branch: what the try block raises reaches process
InsightGeneratorAgent_analyze_uncaught(data, completion) ==
    IF InsightTryRaises(data, completion)
    THEN [raised |-> TRUE, analysis |-> NoValue]
    ELSE [raised |-> FALSE, analysis |-> InsightTryValue(data, completion)]

\* InsightGeneratorAgent._analyze: [raised, analysis]
InsightGeneratorAgent_analyze(data, completion) ==
    IF InsightTryRaises(data, completion)
    THEN [raised |-> FALSE, analysis |-> _basic_analysis(data)]
    ELSE [raised |-> FALSE, analysis |-> InsightTryValue(data, completion)]

\* HealthAnalysisAgent.process: the result it appends to memory and returns
\* (its timestamp, read by no operation, is left out)
ProcessResult(agent, data, analysis) ==
    [agent |-> agent, input_data |-> data, analysis |-> analysis]

----------------------------------------------------------------------------
(* Inputs *)

Summaries ==
    { << >>,
      [steps_avg_7d |-> Tenths(7500), heart_rate_avg_7d |-> Tenths(75),
       sleep_avg_7d |-> 65, water_avg_7d |-> Tenths(1800)],
      [steps_avg_7d |-> Tenths(10000), heart_rate_avg_7d |-> Tenths(70),
       sleep_avg_7d |-> Tenths(8), water_avg_7d |-> Tenths(2000)],
      [steps_avg_7d |-> Tenths(2000), heart_rate_avg_7d |-> Tenths(120),
       sleep_avg_7d |-> Tenths(4)],
      [heart_rate_avg_7d |-> Tenths(120)] }

AnomalyLists ==
    { <<>>,
      << Anomaly("2024-01-02", "heart_rate", Tenths(105), "high",
                 "Elevated resting heart rate detected") >>,
      << Anomaly("date(2024-01-02)", "heart_rate", Tenths(105), "high",
                 "Elevated resting heart rate detected") >> }

\* health_data as a caller of generate_health_insights passes it
GeminiInputs ==
    { [summary |-> s, agent_results |-> [trends |-> << >>, anomalies |-> a]] :
        s \in Summaries, a \in AnomalyLists }
    \cup { << >> }

\* The tokens of a response text, and the texts up to MaxTextLen tokens
TextTokens == {"{", "}", "nl", "x", "recommend", "risk", "good", "ws=150", "recs=num"}

RECURSIVE TextsOfLen(_)
TextsOfLen(n) ==
    IF n = 0 THEN { <<>> }
    ELSE { Append(t, c) : t \in TextsOfLen(n - 1), c \in TextTokens }

Texts == UNION { TextsOfLen(n) : n \in 0..MaxTextLen }

----------------------------------------------------------------------------
(* A caller of generate_health_insights (gemini_agent.py 25-49) *)

None == [status |-> "none"]


\* the call up to the await: the prompt is built outside the try block
GeminiCall(health_data) ==
    /\ g_pc = "idle"
    /\ g_data' = health_data
    /\ g_ret' = None
    /\ g_pc' = IF _create_health_prompt_raises(health_data) THEN "raised" ELSE "awaiting"
    /\ UNCHANGED <<ovars, mvars, rvars, xvars>>

\* the completion call raises: the except branch
GeminiCompletionFails ==
    /\ g_pc = "awaiting"
    /\ g_ret' = generate_health_insights(g_data, CompletionRaises)
    /\ g_pc' = "returned"
    /\ UNCHANGED <<g_data, ovars, mvars, rvars, xvars>>

\* the completion call returns response.text
GeminiCompletionReturns(text) ==
    /\ g_pc = "awaiting"
    /\ g_ret' = generate_health_insights(g_data, CompletionText(text))
    /\ g_pc' = "returned"
    /\ UNCHANGED <<g_data, ovars, mvars, rvars, xvars>>

\* the caller takes the result (or the exception) and may call again
GeminiTaken ==
    /\ g_pc \in {"returned", "raised"}
    /\ g_pc' = "idle"
    /\ g_data' = << >>
    /\ g_ret' = None
    /\ UNCHANGED <<ovars, mvars, rvars, xvars>>

GNext ==
    \/ \E d \in GeminiInputs : GeminiCall(d)
    \/ GeminiCompletionFails
    \/ \E t \in Texts : GeminiCompletionReturns(t)
    \/ GeminiTaken

----------------------------------------------------------------------------
(* MultiAgentHealthSystem.analyze_health_data (multi_agent_system.py       *)
(* 255-299).  A call runs without interruption between two awaits: the     *)
(* sleep of the Trend Detector, the sleep of the Anomaly Detector and the  *)
(* completion call of the LLM Insight Agent.                                *)

Calls == {"call1", "call2"}

IdleCall ==
    [pc |-> "idle", health_data |-> NoValue, trend_result |-> NoValue,
     anomaly_result |-> NoValue, combined_data |-> NoValue, llm |-> "none",
     completion |-> CompletionRaises, returned |-> NoValue]

\* the health_data of the callers
Scenario ==
    << Record("2024-01-01", "steps", "num", Tenths(8500)),
       Record("2024-01-01", "heart_rate", "num", Tenths(72)),
       Record("2024-01-01", "sleep", "num", 75),
       Record("2024-01-02", "steps", "num", Tenths(6500)),
       Record("2024-01-02", "heart_rate", "num", Tenths(105)),
       Record("2024-01-02", "sleep", "num", 45) >>

OrchInputs ==
    { [summary |-> [steps_avg_7d |-> Tenths(7500), heart_rate_avg_7d |-> Tenths(75),
                    sleep_avg_7d |-> 65, water_avg_7d |-> Tenths(1800)],
       timeseries |-> Scenario],
      [summary |-> [steps_avg_7d |-> Tenths(2000), heart_rate_avg_7d |-> Tenths(120),
                    sleep_avg_7d |-> Tenths(4)],
       timeseries |-> << Record("date(2024-01-02)", "heart_rate", "num", Tenths(110)),
                         Record("2024-01-03", "water", "num", Tenths(900)) >>],
      [summary |-> [steps_avg_7d |-> Tenths(9000)],
       timeseries |-> << Record("2024-01-01", "steps", "num", Tenths(9000)),
                         Record("2024-01-02", "steps", "missing", 0) >>],
      [summary |-> [sleep_avg_7d |-> Tenths(8)],
       timeseries |-> << Record("2024-01-01", "sleep", "str", 0) >>],
      [summary |-> << >>, timeseries |-> <<>>] }

OrchTexts ==
    { <<"x">>,
      <<"recommend", "x", "nl", "risk">>,
      <<"x", "{", "ws=82", "recs=list", "risks=list", "summary=str", "}", "x">>,
      <<"{", "ws=150", "recs=str", "}">>,
      <<"{", "ws=str", "recs=num", "}">>,
      <<"{", "risks=num", "}">>,
      <<"{", "x", "}">> }

OrchCompletions == {CompletionRaises} \cup {CompletionText(t) : t \in OrchTexts}

\* the result the Trend Detector appended last, whichever call it served
SharedTrendResult(c) == trend_memory[Len(trend_memory)]

\* the local variables trend_result and anomaly_result of a call
LocalTrendResult(c) == calls[c].trend_result
LocalAnomalyResult(c) == calls[c].anomaly_result

\* the context built without waiting for the Anomaly Detector's result
CombinedDataEarly(health_data, trend_result, anomaly_result) ==
    [k \in DOMAIN health_data \cup {"agent_results"} |->
        IF k = "agent_results"
        THEN [trends |-> trend_result.analysis.trends, anomalies |-> <<>>]
        ELSE health_data[k]]

\* combined_data = {**health_data, 'agent_results': {...}}
CombinedData(health_data, trend_result, anomaly_result) ==
    [k \in DOMAIN health_data \cup {"agent_results"} |->
        IF k = "agent_results"
        THEN [trends |-> trend_result.analysis.trends,
              anomalies |-> anomaly_result.analysis.anomalies]
        ELSE health_data[k]]

RECURSIVE KeyRecommendations(_)
KeyRecommendations(insights) ==
    IF insights = <<>> THEN <<>>
    ELSE (IF Head(insights).priority \in {"high", "medium"}
          THEN <<Head(insights).message>> ELSE <<>>)
         \o KeyRecommendations(Tail(insights))

\* session_result (its time-derived session_id and timestamp are left out)
SessionResult(trend_result, anomaly_result, insight_result) ==
    [results |-> [trends |-> trend_result,
                  anomalies |-> anomaly_result,
                  insights |-> insight_result],
     summary |-> [wellness_score |-> insight_result.analysis.wellness_score,
                  total_anomalies |-> Len(anomaly_result.analysis.anomalies),
                  key_recommendations |->
                      KeyRecommendations(insight_result.analysis.insights)]]

\* The state after construction
Init ==
    /\ g_pc = "idle"
    /\ g_data = << >>
    /\ g_ret = None
    /\ calls = [c \in Calls |-> IdleCall]
    /\ trend_memory = <<>>
    /\ anomaly_memory = <<>>
    /\ insight_memory = <<>>
    /\ session_memory = <<>>
    /\ now = 0
    /\ clock_steps = 0
    /\ service_calls = 0
    /\ finalized = << >>
    /\ evicted = {}
    /\ active_sessions = << >>
    /\ session_state = << >>
    /\ sessions_table = {}
    /\ user_patterns = {}
    /\ r_call = "none"
    /\ r_input = NoValue
    /\ r_output = NoValue
    /\ spans = << >>
    /\ active_spans = <<>>
    /\ collector_metrics = <<>>
    /\ counters = << >>
    /\ traced = <<>>
    /\ system_health = NoValue
    /\ GEMINI_AVAILABLE = "unset"
    /\ GENAI_AVAILABLE = "unset"
    /\ nav_pc = "idle"
    /\ nav_request = NoValue
    /\ nav_completion = NoValue
    /\ nav_response = NoValue
    /\ DATA_STORE = << >>
    /\ SESSIONS = << >>
    /\ METRICS = [uploads |-> 0, last_upload_time_s |-> 0]
    /\ store_log = <<>>
    /\ requests = [r \in {"request1", "request2"} |-> [pc |-> "idle"]]

\* the call up to the sleep inside the Trend Detector
AnalyzeStart(c, health_data) ==
    /\ calls[c].pc = "idle"
    /\ calls' = [calls EXCEPT ![c].pc = "trend_sleep", ![c].health_data = health_data]
    /\ UNCHANGED <<trend_memory, anomaly_memory, insight_memory, session_memory, gvars,
                   mvars, rvars, xvars>>

\* from the end of the Trend Detector's sleep to the sleep inside the Anomaly
\* Detector; an exception of the detector ends the call
TrendStage(c) ==
    /\ calls[c].pc = "trend_sleep"
    /\ LET data == calls[c].health_data
       IN IF TrendAnalysisAgent_raises(data)
          THEN /\ calls' = [calls EXCEPT ![c].pc = "failed"]
               /\ UNCHANGED trend_memory
          ELSE LET result == ProcessResult("TrendAnalyzer", data,
                                           TrendAnalysisAgent_analyze(data))
               IN /\ trend_memory' = Append(trend_memory, result)
                  /\ calls' = [calls EXCEPT ![c].pc = "anomaly_sleep",
                                            ![c].trend_result = result]
    /\ UNCHANGED <<anomaly_memory, insight_memory, session_memory, gvars, mvars, rvars, xvars>>

\* the rest of the call once the insight analysis is known: insight.process
\* returns, session_result is built, appended and returned
Finish(c, anomaly_result, combined_data, llm, completion) ==
    LET outcome == InsightGeneratorAgent_analyze(combined_data, completion)
        insight_result == ProcessResult("InsightGenerator", combined_data, outcome.analysis)
        session_result == SessionResult(LocalTrendResult(c), anomaly_result, insight_result)
    IN IF outcome.raised
       THEN /\ calls' = [calls EXCEPT ![c].pc = "failed",
                                      ![c].anomaly_result = anomaly_result,
                                      ![c].combined_data = combined_data,
                                      ![c].llm = llm, ![c].completion = completion]
            /\ UNCHANGED <<insight_memory, session_memory>>
       ELSE /\ insight_memory' = Append(insight_memory, insight_result)
            /\ session_memory' = Append(session_memory, session_result)
            /\ calls' = [calls EXCEPT ![c].pc = "done",
                                      ![c].anomaly_result = anomaly_result,
                                      ![c].combined_data = combined_data,
                                      ![c].llm = llm, ![c].completion = completion,
                                      ![c].returned = session_result]

\* from the end of the Anomaly Detector's sleep to the completion call of the
\* LLM Insight Agent, or to the end of the call when the prompt cannot be built
AnomalyStage(c) ==
    /\ calls[c].pc = "anomaly_sleep"
    /\ LET data == calls[c].health_data
       IN IF AnomalyDetectionAgent_raises(data)
          THEN /\ calls' = [calls EXCEPT ![c].pc = "failed"]
               /\ UNCHANGED <<anomaly_memory, insight_memory, session_memory>>
          ELSE LET result == ProcessResult("AnomalyDetector", data,
                                           AnomalyDetectionAgent_analyze(data))
                   combined_data == CombinedData(data, LocalTrendResult(c), result)
               IN /\ anomaly_memory' = Append(anomaly_memory, result)
                  /\ IF _create_health_prompt_raises(combined_data)
                     THEN Finish(c, result, combined_data, "not_called", CompletionRaises)
                     ELSE /\ calls' = [calls EXCEPT ![c].pc = "llm_wait",
                                                    ![c].anomaly_result = result,
                                                    ![c].combined_data = combined_data,
                                                    ![c].llm = "called"]
                          /\ UNCHANGED <<insight_memory, session_memory>>
    /\ UNCHANGED <<trend_memory, gvars, mvars, rvars, xvars>>

\* the completion call ends: the rest of the call
LlmStage(c, completion) ==
    /\ calls[c].pc = "llm_wait"
    /\ Finish(c, LocalAnomalyResult(c), calls[c].combined_data, "called", completion)
    /\ UNCHANGED <<trend_memory, anomaly_memory, gvars, mvars, rvars, xvars>>

ONext ==
    \/ \E c \in Calls, d \in OrchInputs : AnalyzeStart(c, d)
    \/ \E c \in Calls : TrendStage(c)
    \/ \E c \in Calls : AnomalyStage(c)
    \/ \E c \in Calls, k \in OrchCompletions : LlmStage(c, k)

----------------------------------------------------------------------------
(* session_memory.py: InMemorySessionService, MemoryBank and               *)
(* HealthMemoryManager.  The clock counts ticks of half a second;          *)
(* strftime('%Y%m%d_%H%M%S') keeps the whole seconds of it.                *)

TicksPerSecond == 2
TicksPerHour == 3600 * TicksPerSecond
Hours(h) == h * TicksPerHour
Days(d) == d * 24 * TicksPerHour

\* how far the clock may advance at once: within the second, or by 25 hours
ClockSteps == {1, Hours(25)}

Users == {"user123", "user456"}

\* the data a caller passes to create_session
SessionData ==
    { [summary |-> [steps_avg_7d |-> Tenths(8500), heart_rate_avg_7d |-> Tenths(72),
                    sleep_avg_7d |-> 72],
       analysis |-> [trends |-> [steps |-> "increasing"], anomalies |-> <<>>],
       wellness_score |-> 855,
       recommendations |-> <<"Maintain current activity level",
                             "Consider sleep optimization">>],
      [wellness_score |-> 600] }

\* the updates a caller passes to update_session_state
SessionUpdates ==
    { [status |-> "processing"],
      [context |-> NoValue, step |-> "upload"] }

\* f"{user_id}_{datetime.now().strftime('%Y%m%d_%H%M%S')}"
SessionId(user_id, t) == <<user_id, t \div TicksPerSecond>>

\* an id no create_session returned
UnknownId == <<"nobody", 0>>

HealthSession(session_id, user_id, timestamp, data) ==
    [session_id |-> session_id,
     user_id |-> user_id,
     timestamp |-> timestamp,
     data_summary |-> Get(data, "summary", NoValue),
     analysis_results |-> Get(data, "analysis", NoValue),
     wellness_score |-> Get(data, "wellness_score", 0),
     recommendations |-> Get(data, "recommendations", <<>>)]

\* d[k] = v for a dict d, k a new key or not
Put(d, k, v) == [x \in DOMAIN d \cup {k} |-> IF x = k THEN v ELSE d[x]]

\* d.update(updates)
Update(d, updates) ==
    [x \in DOMAIN d \cup DOMAIN updates |-> IF x \in DOMAIN updates THEN updates[x] ELSE d[x]]

\* d.pop(k, None) for every k of keys
Without(d, keys) == [x \in DOMAIN d \ keys |-> d[x]]

AdvanceClock(step) ==
    /\ clock_steps < MaxClockSteps
    /\ now' = now + step
    /\ clock_steps' = clock_steps + 1
    /\ UNCHANGED <<service_calls, finalized, evicted, active_sessions, session_state, sessions_table,
                   user_patterns, gvars, ovars, rvars, xvars>>

\* one more call is served
Served ==
    /\ service_calls < MaxServiceCalls
    /\ service_calls' = service_calls + 1
    /\ UNCHANGED <<now, clock_steps, gvars, ovars, rvars, xvars>>

\* a create_session that stores the Session without its state entry
create_session_unregistered(user_id, data) ==
    LET session_id == SessionId(user_id, now)
        session == HealthSession(session_id, user_id, now, data)
    IN /\ Served
       /\ active_sessions' = Put(active_sessions, session_id, session)
       /\ UNCHANGED <<session_state, finalized, evicted, sessions_table, user_patterns>>

create_session(user_id, data) ==
    LET session_id == SessionId(user_id, now)
        session == HealthSession(session_id, user_id, now, data)
    IN /\ Served
       /\ active_sessions' = Put(active_sessions, session_id, session)
       /\ session_state' = Put(session_state, session_id,
                               [status |-> "active", last_activity |-> now, context |-> data])
       /\ UNCHANGED <<finalized, evicted, sessions_table, user_patterns>>

get_session(session_id) == Get(active_sessions, session_id, NoValue)

update_session_state(session_id, updates) ==
    /\ Served
    /\ IF session_id \in DOMAIN session_state
       THEN session_state' =
               [session_state EXCEPT
                   ![session_id] = Put(Update(@, updates), "last_activity", now)]
       ELSE UNCHANGED session_state
    /\ UNCHANGED <<finalized, evicted, active_sessions, sessions_table, user_patterns>>

pause_session(session_id) ==
    /\ Served
    /\ IF session_id \in DOMAIN session_state
       THEN session_state' =
               [session_state EXCEPT ![session_id] = Put(@, "status", "paused")]
       ELSE UNCHANGED session_state
    /\ UNCHANGED <<finalized, evicted, active_sessions, sessions_table, user_patterns>>

resume_session(session_id) ==
    /\ Served
    /\ IF session_id \in DOMAIN session_state
       THEN session_state' =
               [session_state EXCEPT
                   ![session_id] = Put(Put(@, "status", "active"), "last_activity", now)]
       ELSE UNCHANGED session_state
    /\ UNCHANGED <<finalized, evicted, active_sessions, sessions_table, user_patterns>>

\* the ids of a cleanup whose comparison is <= instead of <
ExpiredInclusive(hours) ==
    LET cutoff == now - Hours(hours)
    IN {sid \in DOMAIN session_state : session_state[sid].last_activity <= cutoff}

\* the ids cleanup_expired_sessions(hours) removes
Expired(hours) ==
    LET cutoff == now - Hours(hours)
    IN {sid \in DOMAIN session_state : session_state[sid].last_activity < cutoff}

cleanup_expired_sessions(hours) ==
    /\ Served
    /\ active_sessions' = Without(active_sessions, Expired(hours))
    /\ session_state' = Without(session_state, Expired(hours))
    /\ evicted' = evicted \cup Expired(hours)
    /\ UNCHANGED <<finalized, sessions_table, user_patterns>>

\* return len(expired)
cleanup_expired_sessions_returns(hours) == Cardinality(Expired(hours))

\* datetime.isoformat(): 'YYYY-MM-DDTHH:MM:SS', followed by '.ffffff' only when
\* the microsecond is not 0.  The text is the fixed-width field of the whole
\* seconds, and the fixed-width field of the fraction when there is one.
IsoFormat(t) ==
    [iso |-> IF t % TicksPerSecond = 0
             THEN <<t \div TicksPerSecond>>
             ELSE <<t \div TicksPerSecond, t % TicksPerSecond>>]

\* a <= b for two such texts, compared as strings: field by field, and a
\* text that is the beginning of another one is the smaller
TextLeq(a, b) ==
    \/ a[1] < b[1]
    \/ /\ a[1] = b[1]
       /\ \/ Len(a) = 1
          \/ Len(a) = 2 /\ Len(b) = 2 /\ a[2] <= b[2]

\* json.dumps(x), the TEXT a column holds, and json.loads of such a text
JsonDumps(x) == [json |-> x]
JsonLoadsColumn(text) == text.json

\* a row keyed by the user instead of by the session
SessionRowKeyedByUser(session) ==
    [session_id |-> <<session.user_id, 0>>,
     user_id |-> session.user_id,
     timestamp |-> IsoFormat(session.timestamp),
     data_summary |-> JsonDumps(session.data_summary),
     analysis_results |-> JsonDumps(session.analysis_results),
     wellness_score |-> session.wellness_score,
     recommendations |-> JsonDumps(session.recommendations)]

SessionRow(session) ==
    [session_id |-> session.session_id,
     user_id |-> session.user_id,
     timestamp |-> IsoFormat(session.timestamp),
     data_summary |-> JsonDumps(session.data_summary),
     analysis_results |-> JsonDumps(session.analysis_results),
     wellness_score |-> session.wellness_score,
     recommendations |-> JsonDumps(session.recommendations)]

\* a plain INSERT into a table without a primary key
store_session_insert(table, session) == table \cup {SessionRow(session)}

\* INSERT OR REPLACE INTO sessions: session_id is the primary key
store_session(table, session) ==
    {r \in table : r.session_id # session.session_id} \cup {SessionRow(session)}

\* a SELECT without the condition on user_id
HistoryRowsAnyUser(table, user_id, days) ==
    LET cutoff == IsoFormat(now - Days(days))
    IN {r \in table : TextLeq(cutoff.iso, r.timestamp.iso)}

\* the rows SELECT ... WHERE user_id = ? AND timestamp >= ? finds; the
\* comparison is the one of TEXT values
HistoryRows(table, user_id, days) ==
    LET cutoff == IsoFormat(now - Days(days))
    IN {r \in table : r.user_id = user_id /\ TextLeq(cutoff.iso, r.timestamp.iso)}

\* ... ORDER BY timestamp DESC (one user's rows differ in their timestamp)
RECURSIVE NewestFirst(_)
NewestFirst(rows) ==
    IF rows = {} THEN <<>>
    ELSE LET newest == CHOOSE r \in rows :
                           \A q \in rows : TextLeq(q.timestamp.iso, r.timestamp.iso)
         IN <<newest>> \o NewestFirst(rows \ {newest})

\* the dict get_user_history builds of one row
HistoryEntry(row) ==
    [session_id |-> row.session_id,
     user_id |-> row.user_id,
     timestamp |-> row.timestamp,
     data_summary |-> JsonLoadsColumn(row.data_summary),
     analysis_results |-> JsonLoadsColumn(row.analysis_results),
     wellness_score |-> row.wellness_score,
     recommendations |-> JsonLoadsColumn(row.recommendations)]

get_user_history(table, user_id, days) ==
    LET rows == NewestFirst(HistoryRows(table, user_id, days))
    IN [i \in 1..Len(rows) |-> HistoryEntry(rows[i])]

\* the days a caller passes to get_user_history: none, one, the default
HistoryDays == {0, 1, 30}

RECURSIVE SumScores(_)
SumScores(history) ==
    IF history = <<>> THEN 0 ELSE Head(history).wellness_score + SumScores(Tail(history))

\* INSERT OR REPLACE INTO user_patterns: (user_id, pattern_type) is the primary key
store_user_pattern(patterns, user_id, pattern_type, pattern_data, confidence) ==
    {r \in patterns : ~(r.user_id = user_id /\ r.pattern_type = pattern_type)}
    \cup {[user_id |-> user_id, pattern_type |-> pattern_type,
           pattern_data |-> JsonDumps(pattern_data), confidence |-> confidence,
           last_updated |-> IsoFormat(now)]}

\* _identify_patterns: user_patterns after it, given the table it reads
_identify_patterns(table, session) ==
    LET history == get_user_history(table, session.user_id, 14)
        scores == {history[i].wellness_score : i \in 1..Len(history)}
        highest == CHOOSE x \in scores : \A y \in scores : y <= x
        lowest == CHOOSE x \in scores : \A y \in scores : x <= y
    IN IF Len(history) >= 3
       THEN store_user_pattern(user_patterns, session.user_id, "wellness_trend",
                [average_score |-> [sum |-> SumScores(history), len |-> Len(history)],
                 trend |-> IF history[1].wellness_score > history[Len(history)].wellness_score
                           THEN "improving" ELSE "stable",
                 consistency |-> IF highest - lowest < Tenths(10) THEN "high" ELSE "variable"],
                8)
       ELSE user_patterns

finalize_session(session_id) ==
    /\ Served
    /\ IF session_id \in DOMAIN active_sessions
       THEN LET session == get_session(session_id)
                table == store_session(sessions_table, session)
            IN /\ sessions_table' = table
               /\ user_patterns' = _identify_patterns(table, session)
               /\ finalized' = Put(finalized, session_id,
                                   [session |-> session,
                                    times |-> Get(finalized, session_id, [times |-> 0]).times + 1])
       ELSE UNCHANGED <<sessions_table, user_patterns, finalized>>
    /\ UNCHANGED <<evicted, active_sessions, session_state>>

\* the ids an operation may be called with
CandidateIds ==
    DOMAIN active_sessions \cup {r.session_id : r \in sessions_table} \cup {UnknownId}

\* the hours a caller passes to cleanup_expired_sessions: none, or the default
CleanupHours == {0, 24}

MNext ==
    \/ \E step \in ClockSteps : AdvanceClock(step)
    \/ \E u \in Users, d \in SessionData : create_session(u, d)
    \/ \E sid \in CandidateIds, upd \in SessionUpdates : update_session_state(sid, upd)
    \/ \E sid \in CandidateIds : pause_session(sid)
    \/ \E sid \in CandidateIds : resume_session(sid)
    \/ \E h \in CleanupHours : cleanup_expired_sessions(h)
    \/ \E sid \in CandidateIds : finalize_session(sid)

----------------------------------------------------------------------------
(* The rule-based functions called on their own: TrendAnalysisAgent._analyze, *)
(* AnomalyDetectionAgent._analyze and _calculate_wellness_score             *)

Day1 == "2024-01-01"
Day2 == "2024-01-02"

\* the records of a timeseries: the two days of the sample data, the values
\* at and next to the thresholds, zero, a negative value, a missing value
SeriesRecords ==
    { Record(Day1, "steps", "num", Tenths(8500)),
      Record(Day2, "steps", "num", Tenths(6500)),
      Record(Day2, "steps", "num", Tenths(3000)),
      Record(Day1, "steps", "num", 0),
      Record(Day1, "steps", "num", Tenths(-100)),
      Record(Day1, "heart_rate", "num", Tenths(100)),
      Record(Day2, "heart_rate", "num", Tenths(105)),
      Record(Day1, "sleep", "num", Tenths(5)),
      Record(Day2, "sleep", "num", 45),
      Record(Day1, "water", "num", Tenths(1000)),
      Record(Day1, "sleep", "missing", 0) }

RECURSIVE SeriesOfLen(_)
SeriesOfLen(n) ==
    IF n = 0 THEN { <<>> }
    ELSE { Append(t, r) : t \in SeriesOfLen(n - 1), r \in SeriesRecords }

SeriesInputs == UNION { SeriesOfLen(n) : n \in 0..MaxSeriesLen }

\* the values of one average of a Summary: a negative one, zero, the breakpoints
\* of the tables and values between and beyond them (in tenths)
StepsValues == {Tenths(-100), 0, Tenths(1234), Tenths(5000), Tenths(8000),
                Tenths(10000), Tenths(1000000)}
SleepValues == {Tenths(-1), 0, 55, Tenths(6), Tenths(7), Tenths(8), Tenths(9), 95,
                Tenths(10), 105, Tenths(1000)}
HeartRateValues == {Tenths(-10), 0, Tenths(45), Tenths(50), Tenths(60), Tenths(70),
                    Tenths(80), Tenths(85), Tenths(90), Tenths(120)}
WaterValues == {Tenths(-1), 0, Tenths(1000), Tenths(1500), Tenths(2000), Tenths(100000)}

\* a Summary with the averages it has
SummaryOf(keys, steps, sleep, hr, water) ==
    [k \in keys |-> CASE k = "steps_avg_7d" -> steps
                      [] k = "sleep_avg_7d" -> sleep
                      [] k = "heart_rate_avg_7d" -> hr
                      [] k = "water_avg_7d" -> water]

SummaryKeys == {"steps_avg_7d", "sleep_avg_7d", "heart_rate_avg_7d", "water_avg_7d"}

SummaryInputs ==
    { SummaryOf(SummaryKeys, st, sl, hr, w) :
        st \in StepsValues, sl \in SleepValues, hr \in HeartRateValues, w \in WaterValues }
    \cup { SummaryOf(SummaryKeys \ {k}, Tenths(8000), Tenths(8), Tenths(70), Tenths(2000)) :
             k \in SummaryKeys }
    \cup { << >> }

Raised == [raised |-> TRUE, analysis |-> NoValue]
Returned(analysis) == [raised |-> FALSE, analysis |-> analysis]

TrendAnalysisCall(timeseries) ==
    LET data == [timeseries |-> timeseries]
    IN /\ r_call = "none"
       /\ r_call' = "trend"
       /\ r_input' = data
       /\ r_output' = IF TrendAnalysisAgent_raises(data) THEN Raised
                      ELSE Returned(TrendAnalysisAgent_analyze(data))
       /\ UNCHANGED <<gvars, ovars, mvars, xvars>>

AnomalyDetectionCall(timeseries) ==
    LET data == [timeseries |-> timeseries]
    IN /\ r_call = "none"
       /\ r_call' = "anomaly"
       /\ r_input' = data
       /\ r_output' = IF AnomalyDetectionAgent_raises(data) THEN Raised
                      ELSE Returned(AnomalyDetectionAgent_analyze(data))
       /\ UNCHANGED <<gvars, ovars, mvars, xvars>>

WellnessCall(summary) ==
    /\ r_call = "none"
    /\ r_call' = "wellness"
    /\ r_input' = summary
    /\ r_output' = Returned(_calculate_wellness_score(summary))
    /\ UNCHANGED <<gvars, ovars, mvars, xvars>>

\* the caller takes the result (or the exception) and may call again
RuleResultTaken ==
    /\ r_call # "none"
    /\ r_call' = "none"
    /\ r_input' = NoValue
    /\ r_output' = NoValue
    /\ UNCHANGED <<gvars, ovars, mvars, xvars>>

\* the inputs of a call, none while a result waits to be taken
WhenIdle(inputs) == IF r_call = "none" THEN inputs ELSE {}

RNext ==
    \/ \E t \in WhenIdle(SeriesInputs) : TrendAnalysisCall(t)
    \/ \E t \in WhenIdle(SeriesInputs) : AnomalyDetectionCall(t)
    \/ \E s \in WhenIdle(SummaryInputs) : WellnessCall(s)
    \/ RuleResultTaken

SpecRules == Init /\ [][RNext]_vars

SpecMemory == Init /\ [][MNext]_vars

SpecGemini == Init /\ [][GNext]_vars

SpecOrch == Init /\ [][ONext]_vars

----------------------------------------------------------------------------
(* observability.py: HealthAnalysisTracer, MetricsCollector and the        *)
(* trace_operation wrapper of ObservabilityManager.  A wrapper call runs   *)
(* without interruption up to its await of the wrapped function and again  *)
(* from the end of that await; several calls may be between the two.       *)

MaxTracedCalls == 2

\* the names operations are wrapped under
OperationNames == {"health_data_analysis", "report"}

TraceSpan(span_id, parent_id, operation_name, start_time) ==
    [span_id |-> span_id, parent_id |-> parent_id, operation_name |-> operation_name,
     start_time |-> start_time, end_time |-> NoValue, duration |-> NoValue,
     tags |-> {"function", "args_count"}, logs |-> <<>>, status |-> "started"]

Metric(name, value, timestamp, tags, metric_type) ==
    [name |-> name, value |-> value, timestamp |-> timestamp, tags |-> tags,
     metric_type |-> metric_type]

\* str(uuid.uuid4()): an id no span has yet
Uuid4 == Len(traced) + 1

\* start_span: the tracer after it, as [spans, active_spans]
start_span(span_id, operation_name) ==
    LET parent_id == IF active_spans # <<>> THEN active_spans[Len(active_spans)]
                     ELSE NoValue
    IN [spans |-> Put(spans, span_id,
                      TraceSpan(span_id, parent_id, operation_name, now)),
        active_spans |-> Append(active_spans, span_id)]

\* list.remove(x): without the first occurrence of x
RECURSIVE Remove(_, _)
Remove(list, x) ==
    IF list = <<>> THEN <<>>
    ELSE IF Head(list) = x THEN Tail(list)
    ELSE <<Head(list)>> \o Remove(Tail(list), x)

\* finish_span on the spans sp: the tracer after it, as [spans, active_spans]
finish_span(sp, span_id, status, tag) ==
    IF span_id \in DOMAIN sp
    THEN [spans |-> [sp EXCEPT ![span_id] =
                        [sp[span_id] EXCEPT !.end_time = now,
                                            !.duration = now - sp[span_id].start_time,
                                            !.status = status,
                                            !.tags = sp[span_id].tags \cup {tag}]],
          active_spans |-> IF span_id \in Range(active_spans)
                           THEN Remove(active_spans, span_id)
                           ELSE active_spans]
    ELSE [spans |-> sp, active_spans |-> active_spans]

\* log_to_span: the spans after it
log_to_span(span_id, level, message) ==
    IF span_id \in DOMAIN spans
    THEN [spans EXCEPT ![span_id].logs =
             Append(@, [timestamp |-> now, level |-> level, message |-> message])]
    ELSE spans

\* f"{name}:{':'.join(f'{k}={v}' for k, v in sorted(tags.items()))}": the
\* name followed by the tags in the order of their keys
CounterKey(name, tags) ==
    <<name>> \o [i \in 1..Len(tags) |-> <<tags[i][1], "=", tags[i][2]>>]

\* the tags trace_operation passes, sorted by key
OperationTags(operation_name, status) ==
    << <<"operation", operation_name>>, <<"status", status>> >>

\* the collector: [counters, metrics]
Collector == [counters |-> counters, metrics |-> collector_metrics]

increment_counter(col, name, tags) ==
    LET key == CounterKey(name, tags)
        value == Get(col.counters, key, 0) + 1
    IN [counters |-> Put(col.counters, key, value),
        metrics |-> Append(col.metrics, Metric(name, value, now, tags, "counter"))]

set_gauge(col, name, value, tags) ==
    [counters |-> col.counters,
     metrics |-> Append(col.metrics, Metric(name, value, now, tags, "gauge"))]

record_histogram(col, name, value, tags) ==
    [counters |-> col.counters,
     metrics |-> Append(col.metrics, Metric(name, value, now, tags, "histogram"))]

\* what the wrapped function of the demo records before it returns
\* (set_gauge and increment_counter without tags); another function
\* records nothing
WrappedFunctionRecords(col, operation_name) ==
    IF operation_name = "health_data_analysis"
    THEN increment_counter(set_gauge(col, "data_points_processed", 2, <<>>),
                           "analysis_requests", <<>>)
    ELSE col

\* the wrapper up to its await: start_span, then the wrapped function runs
TraceCall(operation_name) ==
    LET span_id == Uuid4
        tracer == start_span(span_id, operation_name)
    IN /\ Len(traced) < MaxTracedCalls
       /\ spans' = tracer.spans
       /\ active_spans' = tracer.active_spans
       /\ traced' = Append(traced, [operation_name |-> operation_name, span_id |-> span_id,
                                    start_time |-> now, end_time |-> NoValue,
                                    pc |-> "awaiting", exc |-> "none"])
       /\ UNCHANGED <<collector_metrics, counters, system_health, gvars, ovars, mvars, rvars, ivars, nvars, bvars>>

\* the wrapped function returned: histogram, success counter, finish_span
TraceFuncReturns(i) ==
    LET call == traced[i]
        tags == OperationTags(call.operation_name, "success")
        col == increment_counter(
                   record_histogram(WrappedFunctionRecords(Collector, call.operation_name),
                                    "operation_duration", now - call.start_time,
                                    << <<"operation", call.operation_name>> >>),
                   "operations_total", tags)
        tracer == finish_span(spans, call.span_id, "completed", "result_size")
    IN /\ call.pc = "awaiting"
       /\ counters' = col.counters
       /\ collector_metrics' = col.metrics
       /\ spans' = tracer.spans
       /\ active_spans' = tracer.active_spans
       /\ traced' = [traced EXCEPT ![i].pc = "returned", ![i].end_time = now]
       /\ UNCHANGED <<system_health, gvars, ovars, mvars, rvars, ivars, nvars, bvars>>

\* the wrapped function raised an Exception: error counter, log_to_span,
\* finish_span, and the exception is raised again
TraceFuncRaises(i) ==
    LET call == traced[i]
        tags == OperationTags(call.operation_name, "error")
        col == increment_counter(Collector, "operations_total", tags)
        tracer == finish_span(log_to_span(call.span_id, "error", "Exception"),
                              call.span_id, "error", "error")
    IN /\ call.pc = "awaiting"
       /\ counters' = col.counters
       /\ collector_metrics' = col.metrics
       /\ spans' = tracer.spans
       /\ active_spans' = tracer.active_spans
       /\ traced' = [traced EXCEPT ![i].pc = "raised", ![i].exc = "Exception",
                                    ![i].end_time = now]
       /\ UNCHANGED <<system_health, gvars, ovars, mvars, rvars, ivars, nvars, bvars>>

\* the task was cancelled while the wrapped function was suspended:
\* asyncio.CancelledError is a BaseException, 'except Exception' lets it pass
TraceFuncCancelled(i) ==
    /\ traced[i].pc = "awaiting"
    /\ traced' = [traced EXCEPT ![i].pc = "raised", ![i].exc = "CancelledError",
                                 ![i].end_time = now]
    /\ UNCHANGED <<spans, active_spans, collector_metrics, counters, system_health,
                   gvars, ovars, mvars, rvars, ivars, nvars, bvars>>

\* [m for m in self.metrics if m.timestamp.timestamp() > cutoff]
RecentMetrics(hours) ==
    LET cutoff == now - Hours(hours)
    IN SelectSeq(collector_metrics, LAMBDA m : m.timestamp > cutoff)

\* summary['counters']: per metric name, the sum of the values of its
\* counter metrics
RECURSIVE SummaryCounters(_)
SummaryCounters(recent) ==
    IF recent = <<>> THEN << >>
    ELSE LET metric == recent[Len(recent)]
             rest == SummaryCounters(SubSeq(recent, 1, Len(recent) - 1))
         IN IF metric.metric_type = "counter"
            THEN Put(rest, metric.name, Get(rest, metric.name, 0) + metric.value)
            ELSE rest

get_metrics_summary(hours) ==
    LET recent == RecentMetrics(hours)
    IN [total_metrics |-> Len(recent),
        counters |-> SummaryCounters(recent)]

\* sum(d.values())
RECURSIVE SumValues(_)
SumValues(d) ==
    IF DOMAIN d = {} THEN 0
    ELSE LET k == CHOOSE x \in DOMAIN d : TRUE
         IN d[k] + SumValues([x \in DOMAIN d \ {k} |-> d[x]])

\* the key get_system_health reads the failures from
ErrorOperationsKey == "operations_total:status=error"

\* system_status of success_rate = (total - errors) / total
SystemStatus(total, errors) ==
    IF total = 0 THEN "healthy"
    ELSE IF 100 * (total - errors) > 95 * total THEN "healthy"
    ELSE IF 10 * (total - errors) > 8 * total THEN "degraded"
    ELSE "unhealthy"

\* success_rate is in thousandths
get_system_health ==
    LET metrics_summary == get_metrics_summary(1)
        total_operations == SumValues(metrics_summary.counters)
        error_operations == Get(metrics_summary.counters, ErrorOperationsKey, 0)
    IN [system_status |-> SystemStatus(total_operations, error_operations),
        success_rate |-> IF total_operations > 0
                         THEN RoundDiv(1000 * (total_operations - error_operations),
                                       total_operations)
                         ELSE 1000,
        total_operations |-> total_operations,
        active_spans |-> Len(active_spans),
        metrics_summary |-> metrics_summary]

SystemHealthCall ==
    /\ system_health = NoValue
    /\ system_health' = get_system_health
    /\ UNCHANGED <<spans, active_spans, collector_metrics, counters, traced,
                   gvars, ovars, mvars, rvars, ivars, nvars, bvars>>

\* the caller has read the report
SystemHealthTaken ==
    /\ system_health # NoValue
    /\ system_health' = NoValue
    /\ UNCHANGED <<spans, active_spans, collector_metrics, counters, traced,
                   gvars, ovars, mvars, rvars, ivars, nvars, bvars>>

TNext ==
    \/ \E step \in ClockSteps : AdvanceClock(step)
    \/ \E op \in OperationNames : TraceCall(op)
    \/ \E i \in DOMAIN traced : TraceFuncReturns(i)
    \/ \E i \in DOMAIN traced : TraceFuncRaises(i)
    \/ \E i \in DOMAIN traced : TraceFuncCancelled(i)
    \/ SystemHealthCall
    \/ SystemHealthTaken

SpecObs == Init /\ [][TNext]_vars

----------------------------------------------------------------------------

(* The import of the completion library (main.py 19-24, navbar_ai.py       *)
(* 16-21, multi_agent.py 5-10) and the /ai/* routes of navbar_ai.py.  A    *)
(* request runs without interruption up to the completion call and again   *)
(* from its end.                                                            *)

\* the module-level try/except around the import: main.py and navbar_ai.py
\* catch ImportError, multi_agent.py catches every Exception of the import
\* and of genai.configure
ImportModules(imported, configured) ==
    /\ GEMINI_AVAILABLE = "unset"
    /\ GEMINI_AVAILABLE' = (IF imported THEN "True" ELSE "False")
    /\ GENAI_AVAILABLE' = (IF imported /\ configured THEN "True" ELSE "False")
    /\ UNCHANGED <<gvars, ovars, mvars, rvars, tvars, nvars, bvars>>

\* Optional[float]: a number, in tenths, or None
Float(n) == [kind |-> "float", n |-> n]
PyNone == [kind |-> "None", n |-> 0]

MetricsInput(avgSteps, avgHeartRate, avgSleep, avgWater) ==
    [avgSteps |-> avgSteps, avgHeartRate |-> avgHeartRate, avgSleep |-> avgSleep,
     avgWater |-> avgWater]

\* a str: its tokens, and whether it was cut to 97 characters and '...'
PyStr(chars, cut) == [chars |-> chars, cut |-> cut]

\* a list
PyList(items) == [list |-> items]

\* a result: a value, or an exception
NavValue(v) == [raises |-> FALSE, value |-> v]
NavRaised == [raises |-> TRUE, value |-> NoValue]

\* an arithmetic operation or a comparison with None raises TypeError, and
\* so does the format specification of a number applied to None
AnyNone(values) == \E v \in values : v.kind = "None"

generate_mock_greeting(metrics) ==
    IF AnyNone({metrics.avgSteps}) THEN NavRaised
    ELSE NavValue(PyStr(<<"Good afternoon! ",
                          IF metrics.avgSteps.n >= Tenths(8000) THEN "Great job with your steps"
                          ELSE IF metrics.avgSteps.n >= Tenths(5000) THEN "Keep moving"
                          ELSE "Time to get active",
                          ".">>, FALSE))

\* score * 4000000, the four metrics in tenths:
\* (steps/10000)*0.3 + (sleep/8)*0.3 + ((100 - |hr - 70|)/100)*0.2 + (water/2.5)*0.2
MockStatusScore(metrics) ==
    12 * metrics.avgSteps.n + 15000 * metrics.avgSleep.n
    + 800 * (Tenths(100) - Abs(metrics.avgHeartRate.n - Tenths(70)))
    + 32000 * metrics.avgWater.n

generate_mock_health_status(metrics) ==
    IF AnyNone({metrics.avgSteps, metrics.avgSleep, metrics.avgHeartRate, metrics.avgWater})
    THEN NavRaised
    ELSE IF MockStatusScore(metrics) >= 3200000
         THEN NavValue([status |-> "Excellent", color |-> "emerald", score |-> 85])
    ELSE IF MockStatusScore(metrics) >= 2400000
         THEN NavValue([status |-> "Good", color |-> "blue", score |-> 72])
    ELSE NavValue([status |-> "Needs Attention", color |-> "red", score |-> 45])

recommendations_map ==
    [home |-> << [label |-> "View Trends", path |-> "/trends"],
                 [label |-> "Get Insights", path |-> "/insights"] >>,
     trends |-> << [label |-> "Check Forecast", path |-> "/forecast"],
                   [label |-> "View Dashboard", path |-> "/"] >>,
     insights |-> << [label |-> "Chat with AI", path |-> "/health-assistant"],
                     [label |-> "Wellness Hub", path |-> "/wellness-center"] >>]

generate_mock_nav_recommendations(current_page) ==
    NavValue(PyList(CASE current_page = "/trends" -> recommendations_map.trends
                      [] current_page = "/insights" -> recommendations_map.insights
                      [] OTHER -> recommendations_map.home))

generate_mock_action_items(metrics) ==
    IF AnyNone({metrics.avgSteps})
       \/ AnyNone({metrics.avgSleep})
    THEN NavRaised
    ELSE LET items ==
               (IF metrics.avgSteps.n < Tenths(5000)
                THEN << [title |-> "Low Activity", urgency |-> "high",
                         action |-> "/wellness-center"] >>
                ELSE <<>>)
               \o (IF metrics.avgSleep.n < 65
                   THEN << [title |-> "Inadequate Sleep", urgency |-> "high",
                            action |-> "/insights"] >>
                   ELSE <<>>)
         IN NavValue(PyList(IF items = <<>>
                            THEN << [title |-> "Keep it Up!", urgency |-> "low",
                                     action |-> "/"] >>
                            ELSE items))

\* Optional[List[Dict]]: None, or the list
AnomalyList(items) == [kind |-> "list", items |-> items]
NoAnomalyList == [kind |-> "None", items |-> <<>>]

\* not anomalies
NotAnomalies(anomalies) == anomalies.kind = "None" \/ anomalies.items = <<>>

generate_mock_alert(anomalies) ==
    IF NotAnomalies(anomalies) THEN NavValue(PyNone)
    ELSE NavValue([type |-> "warning",
                   message |-> [count |-> Len(anomalies.items),
                                text |-> " metrics need attention"],
                   details |-> Get(anomalies.items[1], "reason", "Review your health data")])

Endpoints ==
    {"navbar-greeting", "health-status-badge", "nav-recommendations", "action-items",
     "health-alert"}

\* the mock generator of an endpoint, applied to a request
MockGenerator(request) ==
    CASE request.endpoint = "navbar-greeting" -> generate_mock_greeting(request.metrics)
      [] request.endpoint = "health-status-badge" ->
            generate_mock_health_status(request.metrics)
      [] request.endpoint = "nav-recommendations" ->
            generate_mock_nav_recommendations(request.currentPage)
      [] request.endpoint = "action-items" -> generate_mock_action_items(request.metrics)
      [] OTHER -> generate_mock_alert(request.anomalies)

\* the tokens of a response text: the markers, a member of an object
\* ("key": scalar, with its comma), a scalar item, a word of 60 characters,
\* a blank and a double quote
NavTokens == {"{", "}", "[", "]", "member", "item", "w60", "sp", "q"}

RECURSIVE NavTextsOfLen(_)
NavTextsOfLen(n) ==
    IF n = 0 THEN { <<>> }
    ELSE { Append(t, c) : t \in NavTextsOfLen(n - 1), c \in NavTokens }

NavTexts == UNION { NavTextsOfLen(n) : n \in 0..MaxTextLen }

\* json.loads on tokens: the index after the JSON value that begins at i,
\* 0 when there is none
RECURSIVE ValueEnd(_, _)
RECURSIVE ObjectEnd(_, _)
RECURSIVE ArrayEnd(_, _)
ValueEnd(s, i) ==
    IF i > Len(s) THEN 0
    ELSE IF s[i] = "item" THEN i + 1
    ELSE IF s[i] = "{" THEN ObjectEnd(s, i + 1)
    ELSE IF s[i] = "[" THEN ArrayEnd(s, i + 1)
    ELSE 0

ObjectEnd(s, i) ==
    IF i > Len(s) THEN 0
    ELSE IF s[i] = "}" THEN i + 1
    ELSE IF s[i] \in {"member", "sp"} THEN ObjectEnd(s, i + 1)
    ELSE 0

ArrayEnd(s, i) ==
    IF i > Len(s) THEN 0
    ELSE IF s[i] = "]" THEN i + 1
    ELSE IF s[i] = "sp" THEN ArrayEnd(s, i + 1)
    ELSE LET e == ValueEnd(s, i)
         IN IF e = 0 THEN 0 ELSE ArrayEnd(s, e)

\* json.loads(s) succeeds: s is one JSON value
NavJsonDecodes(s) == s # <<>> /\ ValueEnd(s, 1) = Len(s) + 1

\* the decoded value, kept as the text it was decoded from
NavJsonLoads(s) == [json |-> s]

\* str.strip(chars): without the tokens of chars at both ends
RECURSIVE LStrip(_, _)
LStrip(s, chars) ==
    IF s # <<>> /\ Head(s) \in chars THEN LStrip(Tail(s), chars) ELSE s

RECURSIVE RStrip(_, _)
RStrip(s, chars) ==
    IF s # <<>> /\ s[Len(s)] \in chars THEN RStrip(SubSeq(s, 1, Len(s) - 1), chars) ELSE s

Strip(s, chars) == RStrip(LStrip(s, chars), chars)

\* len(s), in characters
RECURSIVE CharLen(_)
CharLen(s) ==
    IF s = <<>> THEN 0 ELSE (IF Head(s) = "w60" THEN 60 ELSE 1) + CharLen(Tail(s))

\* greeting[:97] + "..." when the greeting has more than 100 characters
Greeting(text) ==
    LET greeting == Strip(Strip(text, {"sp"}), {"q"})
    IN PyStr(greeting, CharLen(greeting) > 100)

\* the start and the end marker an endpoint extracts its JSON between
StartMarker(endpoint) ==
    IF endpoint \in {"nav-recommendations", "action-items"} THEN "[" ELSE "{"
EndMarker(endpoint) ==
    IF endpoint \in {"nav-recommendations", "action-items"} THEN "]" ELSE "}"

\* the f-string of the prompt raises: a metric that is None has no format
\* '.0f'; the alert's prompt formats no metric
PromptRaises(request) ==
    /\ request.endpoint # "health-alert"
    /\ AnyNone({request.metrics.avgSteps, request.metrics.avgHeartRate,
                request.metrics.avgSleep, request.metrics.avgWater})

\* generate_*_with_llm returns the mock before it calls the service
MockWithoutCall(request) ==
    \/ GEMINI_AVAILABLE # "True"
    \/ request.endpoint = "health-alert" /\ NotAnomalies(request.anomalies)
    \/ PromptRaises(request)

\* generate_*_with_llm once the completion call has ended
GenerateWithLlm(request, completion) ==
    IF completion.raises THEN MockGenerator(request)
    ELSE IF request.endpoint = "navbar-greeting" THEN NavValue(Greeting(completion.text))
    ELSE LET text == Strip(completion.text, {"sp"})
             start == Find(text, StartMarker(request.endpoint))
             end == RFind(text, EndMarker(request.endpoint)) + 1
         IN IF start # -1 /\ end # -1
            THEN IF NavJsonDecodes(Slice(text, start, end))
                 THEN NavValue(NavJsonLoads(Slice(text, start, end)))
                 ELSE MockGenerator(request)
            ELSE MockGenerator(request)

\* the key a route returns its content under
ContentKey(endpoint) ==
    CASE endpoint = "navbar-greeting" -> "greeting"
      [] endpoint = "health-status-badge" -> "status"
      [] endpoint = "nav-recommendations" -> "recommendations"
      [] endpoint = "action-items" -> "actions"
      [] OTHER -> "alert"

\* the route: the content with 200, or HTTPException(500) for an exception
NavRoute(request, result) ==
    IF result.raises THEN [status_code |-> 500, key |-> "detail", content |-> NoValue]
    ELSE [status_code |-> 200, key |-> ContentKey(request.endpoint),
          content |-> result.value]

\* the metrics a request carries: the defaults, three sets of numbers, and
\* a null for avgSteps
NavMetrics ==
    {MetricsInput(Float(0), Float(0), Float(0), Float(0)),
     MetricsInput(Float(Tenths(9000)), Float(Tenths(70)), Float(Tenths(8)), Float(25)),
     MetricsInput(Float(Tenths(6000)), Float(Tenths(75)), Float(Tenths(6)), Float(20)),
     MetricsInput(PyNone, Float(Tenths(70)), Float(Tenths(8)), Float(25))}

NavPages == {"/", "/trends", "/insights", "/forecast"}

NavAnomalies ==
    {NoAnomalyList, AnomalyList(<<>>),
     AnomalyList(<< [reason |-> "High heart rate"] >>),
     AnomalyList(<< [metric |-> "sleep"], [reason |-> "High heart rate"] >>)}

NavRequest(endpoint, metrics, currentPage, anomalies) ==
    [endpoint |-> endpoint, metrics |-> metrics, currentPage |-> currentPage,
     anomalies |-> anomalies]

\* the fields an endpoint's request model has; the others are not sent
NavRequests ==
    { NavRequest(e, m, NoValue, NoValue) :
        e \in {"navbar-greeting", "health-status-badge", "action-items"}, m \in NavMetrics }
    \cup { NavRequest("nav-recommendations", m, p, NoValue) : m \in NavMetrics, p \in NavPages }
    \cup { NavRequest("health-alert", NoValue, NoValue, a) : a \in NavAnomalies }

\* a request arrives and runs up to the completion call, or to its answer
NavbarRequest(request) ==
    /\ GEMINI_AVAILABLE # "unset"
    /\ nav_pc = "idle"
    /\ nav_request' = request
    /\ IF MockWithoutCall(request)
       THEN /\ nav_pc' = "answered"
            /\ nav_completion' =
                  [outcome |-> IF GEMINI_AVAILABLE = "True" THEN "not called"
                               ELSE "unavailable",
                   text |-> <<>>]
            /\ nav_response' = NavRoute(request, MockGenerator(request))
       ELSE /\ nav_pc' = "awaiting"
            /\ nav_completion' = NoValue
            /\ nav_response' = NoValue
    /\ UNCHANGED <<gvars, ovars, mvars, rvars, tvars, ivars, bvars>>

\* the completion call ends: it raised, or response.text is the text
NavbarCompletion(completion) ==
    /\ nav_pc = "awaiting"
    /\ nav_pc' = "answered"
    /\ nav_completion' = [outcome |-> IF completion.raises THEN "raised" ELSE "text",
                          text |-> completion.text]
    /\ nav_response' = NavRoute(nav_request, GenerateWithLlm(nav_request, completion))
    /\ UNCHANGED <<nav_request, gvars, ovars, mvars, rvars, tvars, ivars, bvars>>

\* the response has been sent
NavbarAnswered ==
    /\ nav_pc = "answered"
    /\ nav_pc' = "idle"
    /\ nav_request' = NoValue
    /\ nav_completion' = NoValue
    /\ nav_response' = NoValue
    /\ UNCHANGED <<gvars, ovars, mvars, rvars, tvars, ivars, bvars>>

\* the inputs of a step that needs the position pc
NavWhen(pc, inputs) == IF nav_pc = pc THEN inputs ELSE {}

NNext ==
    \/ \E imported \in BOOLEAN, configured \in BOOLEAN : ImportModules(imported, configured)
    \/ \E request \in NavWhen("idle", NavRequests) : NavbarRequest(request)
    \/ NavbarCompletion(CompletionRaises)
    \/ \E text \in NavWhen("awaiting", NavTexts) : NavbarCompletion(CompletionText(text))
    \/ NavbarAnswered

SpecNavbar == Init /\ [][NNext]_vars

----------------------------------------------------------------------------

(* multi_agent.py and main.py: the two agents run by asyncio.gather, and   *)
(* the routes of the backend over DATA_STORE, SESSIONS and METRICS.  A     *)
(* handler runs without interruption up to an await of the completion      *)
(* service and again from its end; handlers of several requests may be     *)
(* between the two.                                                         *)

Requests == {"request1", "request2"}

\* the values uuid.uuid4() can give
DataIds == {"uuid1", "uuid2"}

\* ChatRequest.data_id: None
NoDataId == "None"

\* a summary: metric -> a float, in tenths, or a value that is no number
AgentSummary(steps, hr, sleep, water) ==
    [steps_avg_7d |-> steps, heart_rate_avg_7d |-> hr, sleep_avg_7d |-> sleep,
     water_avg_7d |-> water]

\* llm_agent without the completion library
llm_agent_mock(summary) ==
    [agent |-> "llm_agent", status |-> "mock",
     summary |-> <<Get(summary, "steps_avg_7d", Float(0)),
                   Get(summary, "sleep_avg_7d", Float(0))>>,
     recommendations |-> <<"Keep a consistent sleep schedule",
                           "Aim for 8,000+ steps on most days">>]

\* llm_agent from the end of the completion call
llm_agent(completion) ==
    IF completion.raises
    THEN [agent |-> "llm_agent", status |-> "error", error |-> "str(e)"]
    ELSE LET text == completion.text
             start == Find(text, "{")
             end == RFind(text, "}") + 1
         IN IF start # -1 /\ end # -1
            THEN IF NavJsonDecodes(Slice(text, start, end))
                 THEN [agent |-> "llm_agent", status |-> "success",
                       result |-> NavJsonLoads(Slice(text, start, end))]
                 ELSE [agent |-> "llm_agent", status |-> "error", error |-> "str(e)"]
            ELSE [agent |-> "llm_agent", status |-> "error",
                  error |-> "No parsable response"]

\* evaluator_agent: the score, times 10000, before it is clamped
EvaluatorScore(steps, hr, sleep, water) ==
    Min(1000000, 4 * steps) + Min(400000, 5000 * sleep)
    + 100 * Max(0, 1000 - Abs(hr - 700)) + Min(100000, 4000 * water)

evaluator_risks(steps, hr, sleep) ==
    (IF steps < Tenths(5000) THEN <<"Low activity">> ELSE <<>>)
    \o (IF hr > Tenths(100) THEN <<"Elevated heart rate">> ELSE <<>>)
    \o (IF sleep < Tenths(6) THEN <<"Insufficient sleep">> ELSE <<>>)

\* evaluator_agent: it has no await; the arithmetic raises TypeError for a
\* value that is no number
evaluator_agent(summary) ==
    LET steps == Get(summary, "steps_avg_7d", Float(0))
        hr == Get(summary, "heart_rate_avg_7d", Float(0))
        sleep == Get(summary, "sleep_avg_7d", Float(0))
        water == Get(summary, "water_avg_7d", Float(0))
    IN IF AnyNone({steps, hr, sleep, water})
       THEN [state |-> "raised", value |-> NoValue]
       ELSE [state |-> "returned",
             value |-> [agent |-> "evaluator_agent", status |-> "success",
                        wellness_score |->
                            Max(0, Min(1000000,
                                EvaluatorScore(steps.n, hr.n, sleep.n, water.n))) \div 10000,
                        risks |-> evaluator_risks(steps.n, hr.n, sleep.n)]]

\* run_agents_in_parallel up to its await of gather: llm_agent runs to its
\* await of the completion call, or returns the mock, and evaluator_agent
\* runs to its end
run_agents_in_parallel(summary) ==
    [summary |-> summary,
     llm |-> IF GENAI_AVAILABLE = "True"
             THEN [state |-> "awaiting", value |-> NoValue]
             ELSE [state |-> "returned", value |-> llm_agent_mock(summary)],
     evaluator |-> evaluator_agent(summary),
     gather |-> [state |-> "pending", results |-> <<>>]]

\* asyncio.gather(*tasks, return_exceptions=False) is done: a task raised,
\* or every task has returned
GatherDone(agents) ==
    \/ agents.evaluator.state = "raised"
    \/ agents.llm.state = "returned" /\ agents.evaluator.state = "returned"

\* the end of the await of gather: the first exception, or the results in
\* the order of the tasks
gather(agents) ==
    IF agents.evaluator.state = "raised"
    THEN [state |-> "raised", results |-> <<>>]
    ELSE [state |-> "returned", results |-> <<agents.llm.value, agents.evaluator.value>>]

\* an uploaded file: pd.read_csv raises for a malformed one; user_ids is
\* the column 'user_id', summary the summary of its rows
UploadFile(filename, malformed, has_user_id, user_ids, summary) ==
    [filename |-> filename, malformed |-> malformed, has_user_id |-> has_user_id,
     user_ids |-> user_ids, summary |-> summary]

TypicalSummary ==
    AgentSummary(Float(Tenths(7500)), Float(Tenths(75)), Float(65), Float(Tenths(1800)))
LowSummary ==
    AgentSummary(Float(Tenths(3000)), Float(Tenths(110)), Float(50), Float(10))

UploadFiles ==
    {UploadFile("health.csv", TRUE, FALSE, <<>>, << >>),
     UploadFile("health.csv", FALSE, FALSE, <<>>, TypicalSummary),
     UploadFile("health.csv", FALSE, TRUE, <<>>, << >>),
     UploadFile("health.csv", FALSE, TRUE, <<"user123">>, TypicalSummary),
     UploadFile("health.csv", FALSE, TRUE, <<"user456", "user123">>, TypicalSummary)}

\* the summaries run_agents_in_parallel is called with: those of the
\* processor, and one with a value that is no number
AgentSummaries ==
    {<< >>, TypicalSummary, LowSummary,
     AgentSummary(PyNone, Float(Tenths(75)), Float(65), Float(Tenths(1800)))}

\* get_trends_and_insights(df): the summary of the rows and the three
\* other results
get_trends_and_insights(file) ==
    [summary |-> file.summary, trends |-> [of |-> file.user_ids],
     anomalies |-> [of |-> file.user_ids], timeseries |-> [of |-> file.user_ids]]

HTTPException(status_code) == [status_code |-> status_code, body |-> [detail |-> "detail"]]
Ok(body) == [status_code |-> 200, body |-> body]

\* the time of the upload without the count
CountUploadNot(metrics) == [metrics EXCEPT !.last_upload_time_s = now]

\* METRICS['uploads'] += 1; METRICS['last_upload_time_s'] = time.time()
CountUpload(metrics) ==
    [uploads |-> metrics.uploads + 1, last_upload_time_s |-> now]

\* the id put in front of the user's list
SessionsPrepend(sessions, user_id, data_id) ==
    Put(sessions, user_id, <<data_id>> \o Get(sessions, user_id, <<>>))

\* SESSIONS.setdefault(user_id, []).append(data_id)
SessionsAppend(sessions, user_id, data_id) ==
    Put(sessions, user_id, Append(Get(sessions, user_id, <<>>), data_id))

\* upload_csv with the data stored before the user is read from the rows
upload_csv_stores_first(file, results, gathered, data_id, store) ==
    [store |-> [store EXCEPT !.DATA_STORE =
                   Put(@, data_id, [user_id |-> "unknown", raw_filename |-> file.filename,
                                    processed |-> results])],
     response |-> HTTPException(400)]

\* upload_csv from the end of run_agents_in_parallel: the agents' results
\* or [], the id, the user, the three stores and the response; an
\* exception before the stores are written is answered with 400
upload_csv(file, results, gathered, data_id, store) ==
    LET processed == Put(results, "agents",
                         IF gathered.state = "returned" THEN gathered.results ELSE <<>>)
    IN IF file.has_user_id /\ file.user_ids = <<>>
       THEN [store |-> store, response |-> HTTPException(400)]
       ELSE LET user_id == IF file.has_user_id THEN file.user_ids[1] ELSE "unknown"
                stored_data == [user_id |-> user_id, raw_filename |-> file.filename,
                                processed |-> processed]
            IN [store |->
                   [DATA_STORE |-> Put(store.DATA_STORE, data_id, stored_data),
                    SESSIONS |-> SessionsAppend(store.SESSIONS, user_id, data_id),
                    METRICS |-> CountUpload(store.METRICS),
                    store_log |-> Append(store.store_log, data_id)],
                response |-> Ok([status |-> "ok", data_id |-> data_id,
                                 summary |-> processed.summary, ai_enhanced |-> FALSE])]

Store ==
    [DATA_STORE |-> DATA_STORE, SESSIONS |-> SESSIONS, METRICS |-> METRICS,
     store_log |-> store_log]

SetStore(store) ==
    /\ DATA_STORE' = store.DATA_STORE
    /\ SESSIONS' = store.SESSIONS
    /\ METRICS' = store.METRICS
    /\ store_log' = store.store_log

BackendFrame == UNCHANGED <<gvars, ovars, mvars, rvars, tvars, ivars, nvars>>

\* the uploads that await their agents; each of them will draw an id
Gathering == { r \in Requests : requests[r].pc = "gathering" /\ requests[r].kind = "upload" }

\* POST /upload up to its await of run_agents_in_parallel, or to the 400
\* of a file that cannot be read; stored_before is history: the ids stored
\* when the upload began
UploadBegin(r, file) ==
    /\ GENAI_AVAILABLE # "unset"
    /\ requests[r].pc = "idle"
    /\ Cardinality(DOMAIN DATA_STORE) + Cardinality(Gathering) < Cardinality(DataIds)
    /\ requests' = [requests EXCEPT ![r] =
          IF file.malformed
          THEN [pc |-> "answered", kind |-> "upload", file |-> file,
                response |-> HTTPException(400)]
          ELSE [pc |-> "gathering", kind |-> "upload", file |-> file,
                stored_before |-> DOMAIN DATA_STORE,
                results |-> get_trends_and_insights(file),
                agents |-> run_agents_in_parallel(file.summary)]]
    /\ UNCHANGED <<DATA_STORE, SESSIONS, METRICS, store_log>>
    /\ BackendFrame

\* a direct call of run_agents_in_parallel up to its await of gather
RunAgentsBegin(r, summary) ==
    /\ GENAI_AVAILABLE # "unset"
    /\ requests[r].pc = "idle"
    /\ requests' = [requests EXCEPT ![r] =
          [pc |-> "gathering", kind |-> "run_agents",
           agents |-> run_agents_in_parallel(summary)]]
    /\ UNCHANGED <<DATA_STORE, SESSIONS, METRICS, store_log>>
    /\ BackendFrame

\* the completion call of an llm_agent ends; the task goes on to its end
\* whether or not gather is still awaited
LlmAgentCompletion(r, completion) ==
    /\ requests[r].pc \in {"gathering", "answered"}
    /\ requests[r].kind \in {"upload", "run_agents"}
    /\ "agents" \in DOMAIN requests[r]
    /\ requests[r].agents.llm.state = "awaiting"
    /\ requests' = [requests EXCEPT ![r].agents.llm =
          [state |-> "returned", value |-> llm_agent(completion)]]
    /\ UNCHANGED <<DATA_STORE, SESSIONS, METRICS, store_log>>
    /\ BackendFrame

\* the await of gather ends in the upload: the rest of upload_csv
UploadGathered(r, data_id) ==
    /\ requests[r].pc = "gathering"
    /\ requests[r].kind = "upload"
    /\ GatherDone(requests[r].agents)
    /\ data_id \notin DOMAIN DATA_STORE
    /\ LET gathered == gather(requests[r].agents)
           upload == upload_csv(requests[r].file, requests[r].results, gathered,
                                data_id, Store)
       IN /\ SetStore(upload.store)
          /\ requests' = [requests EXCEPT ![r] =
                [pc |-> "answered", kind |-> "upload", file |-> @.file,
                 stored_before |-> @.stored_before,
                 agents |-> [@.agents EXCEPT !.gather = gathered],
                 response |-> upload.response]]
    /\ BackendFrame

\* the await of gather ends in the direct call: it returns or raises
RunAgentsGathered(r) ==
    /\ requests[r].pc = "gathering"
    /\ requests[r].kind = "run_agents"
    /\ GatherDone(requests[r].agents)
    /\ requests' = [requests EXCEPT ![r] =
          [pc |-> "answered", kind |-> "run_agents",
           agents |-> [requests[r].agents EXCEPT
                          !.gather = gather(requests[r].agents)]]]
    /\ UNCHANGED <<DATA_STORE, SESSIONS, METRICS, store_log>>
    /\ BackendFrame

----------------------------------------------------------------------------

\* the texts the completion service answers a chat with
ChatTexts == {<<>>, <<"q">>}

\* the texts the completion service answers llm_agent with
AgentTexts == { t \in NavTexts : Range(t) \subseteq {"{", "}", "q"} }

\* the texts it answers the llm_agent of an upload with
UploadTexts == {<<"{", "}">>}

ChatRequest(message, data_id) == [message |-> message, data_id |-> data_id]

ChatRequests == { ChatRequest("message", d) : d \in {NoDataId} \cup DataIds }

\* context_prompt with every id taken for a stored one
context_prompt_unchecked(request) ==
    IF request.data_id # NoDataId THEN <<request.data_id>> ELSE <<>>

\* context_prompt: the summary of the stored data, '' without such data
context_prompt(request) ==
    IF request.data_id # NoDataId /\ request.data_id \in DOMAIN DATA_STORE
    THEN <<DATA_STORE[request.data_id].processed.summary>>
    ELSE <<>>

\* POST /chat up to its await of the completion call, or to its answer
\* without the completion library
ChatBegin(r, request) ==
    /\ GEMINI_AVAILABLE # "unset"
    /\ requests[r].pc = "idle"
    /\ requests' = [requests EXCEPT ![r] =
          IF GEMINI_AVAILABLE # "True"
          THEN [pc |-> "answered", kind |-> "chat", request |-> request,
                completion |-> "unavailable", text |-> <<>>,
                response |-> Ok([response |-> "AI chat is not available right now."])]
          ELSE [pc |-> "chatting", kind |-> "chat", request |-> request,
                context_prompt |-> context_prompt(request)]]
    /\ UNCHANGED <<DATA_STORE, SESSIONS, METRICS, store_log>>
    /\ BackendFrame

\* the completion call of a chat ends: the text with has_context, or the
\* apology for an exception
ChatCompletion(r, completion) ==
    /\ requests[r].pc = "chatting"
    /\ requests' = [requests EXCEPT ![r] =
          [pc |-> "answered", kind |-> "chat", request |-> @.request,
           completion |-> IF completion.raises THEN "raised" ELSE "text",
           text |-> completion.text,
           response |->
              IF completion.raises
              THEN Ok([response |-> "I'm having trouble right now. Please try again later.",
                       error |-> "str(e)"])
              ELSE Ok([response |-> completion.text,
                       has_context |-> @.context_prompt # <<>>])]]
    /\ UNCHANGED <<DATA_STORE, SESSIONS, METRICS, store_log>>
    /\ BackendFrame

DataEndpoints == {"summary", "trends", "anomalies"}

get_summary(data_id) ==
    LET data == DATA_STORE[data_id]
        processed == data.processed
    IN [user_id |-> data.user_id, summary |-> processed.summary,
        trends |-> processed.trends, anomalies |-> processed.anomalies,
        timeseries |-> processed.timeseries, agents |-> Get(processed, "agents", <<>>),
        data_id |-> data_id]

get_trends(data_id) == DATA_STORE[data_id].processed.timeseries

get_anomalies(data_id) == DATA_STORE[data_id].processed.anomalies

\* GET /data/{data_id}/summary, /trends and /anomalies
DataRequest(r, endpoint, data_id) ==
    /\ requests[r].pc = "idle"
    /\ requests' = [requests EXCEPT ![r] =
          [pc |-> "answered", kind |-> endpoint, data_id |-> data_id,
           response |->
              IF data_id \notin DOMAIN DATA_STORE THEN HTTPException(404)
              ELSE Ok(CASE endpoint = "summary" -> get_summary(data_id)
                        [] endpoint = "trends" -> get_trends(data_id)
                        [] OTHER -> get_anomalies(data_id))]]
    /\ UNCHANGED <<DATA_STORE, SESSIONS, METRICS, store_log>>
    /\ BackendFrame

UserIds == {"unknown", "user123", "user456", "user789"}

\* GET /sessions/{user_id}
get_user_sessions(r, user_id) ==
    /\ requests[r].pc = "idle"
    /\ requests' = [requests EXCEPT ![r] =
          [pc |-> "answered", kind |-> "sessions", user_id |-> user_id,
           response |-> Ok([user_id |-> user_id,
                            data_ids |-> Get(SESSIONS, user_id, <<>>)])]]
    /\ UNCHANGED <<DATA_STORE, SESSIONS, METRICS, store_log>>
    /\ BackendFrame

\* GET /metrics
get_metrics(r) ==
    /\ requests[r].pc = "idle"
    /\ requests' = [requests EXCEPT ![r] =
          [pc |-> "answered", kind |-> "metrics", response |-> Ok(METRICS)]]
    /\ UNCHANGED <<DATA_STORE, SESSIONS, METRICS, store_log>>
    /\ BackendFrame

\* the response has been sent, or the direct call has ended
RequestAnswered(r) ==
    /\ requests[r].pc = "answered"
    /\ requests' = [requests EXCEPT ![r] = [pc |-> "idle"]]
    /\ UNCHANGED <<DATA_STORE, SESSIONS, METRICS, store_log>>
    /\ BackendFrame

\* the inputs of a step of request r that needs the position pc
RequestWhen(r, pc, inputs) == IF requests[r].pc = pc THEN inputs ELSE {}

\* run_agents_in_parallel called on its own
ANext ==
    \/ \E imported \in BOOLEAN, configured \in BOOLEAN : ImportModules(imported, configured)
    \/ \E r \in Requests :
          \/ \E summary \in RequestWhen(r, "idle", AgentSummaries) : RunAgentsBegin(r, summary)
          \/ LlmAgentCompletion(r, CompletionRaises)
          \/ \E text \in RequestWhen(r, "gathering", AgentTexts) \cup
                         RequestWhen(r, "answered", AgentTexts) :
                LlmAgentCompletion(r, CompletionText(text))
          \/ RunAgentsGathered(r)
          \/ RequestAnswered(r)

SpecAgents == Init /\ [][ANext]_vars

\* the routes of main.py
BNext ==
    \/ \E imported \in BOOLEAN, configured \in BOOLEAN : ImportModules(imported, configured)
    \/ \E r \in Requests :
          \/ \E file \in RequestWhen(r, "idle", UploadFiles) : UploadBegin(r, file)
          \/ LlmAgentCompletion(r, CompletionRaises)
          \/ \E text \in RequestWhen(r, "gathering", UploadTexts) :
                LlmAgentCompletion(r, CompletionText(text))
          \/ \E data_id \in RequestWhen(r, "gathering", DataIds) : UploadGathered(r, data_id)
          \/ \E request \in RequestWhen(r, "idle", ChatRequests) : ChatBegin(r, request)
          \/ ChatCompletion(r, CompletionRaises)
          \/ \E text \in RequestWhen(r, "chatting", ChatTexts) :
                ChatCompletion(r, CompletionText(text))
          \/ \E endpoint \in DataEndpoints, data_id \in RequestWhen(r, "idle", DataIds) :
                DataRequest(r, endpoint, data_id)
          \/ \E user_id \in RequestWhen(r, "idle", UserIds) : get_user_sessions(r, user_id)
          \/ get_metrics(r)
          \/ RequestAnswered(r)

SpecBackend == Init /\ [][BNext]_vars

----------------------------------------------------------------------------

(* Properties of generate_health_insights and analyze_health_data *)

\* C1: generate_health_insights never raises to its caller: every call ends
\* with a returned value whose status is success or error and which carries
\* an insights structure.
C1_NeverRaises ==
    /\ g_pc # "raised"
    /\ g_pc = "returned" =>
          /\ g_ret.status \in {"success", "error"}
          /\ "insights" \in DOMAIN g_ret

\* The LLM path of a call failed: the prompt could not be built, the
\* completion call raised, or the decoded object holds a 'recommendations' or
\* 'risks' value that cannot be sliced.
LLMPathFailed(c) ==
    \/ calls[c].llm = "not_called"
    \/ calls[c].completion.raises
    \/ LET decoded == _parse_gemini_response(calls[c].completion.text)
       IN \/ Get(decoded, "recommendations", JList(<<>>)).kind \in {"num", "null"}
          \/ Get(decoded, "risks", JList(<<>>)).kind \in {"num", "null"}

\* C2: a call whose Trend and Anomaly detection succeeded never fails,
\* whatever the completion service did: it ends with a session result that
\* holds trends, anomalies, insights and summary.wellness_score; when the LLM
\* path failed the insight analysis is the rule-based one, ai_powered false.
C2_OrchestrationSurvivesLLM ==
    \A c \in Calls :
        /\ calls[c].pc = "failed" =>
              \/ TrendAnalysisAgent_raises(calls[c].health_data)
              \/ AnomalyDetectionAgent_raises(calls[c].health_data)
        /\ calls[c].pc = "done" =>
              LET r == calls[c].returned
                  analysis == r.results.insights.analysis
              IN /\ DOMAIN r.results = {"trends", "anomalies", "insights"}
                 /\ r.results.trends.analysis =
                        TrendAnalysisAgent_analyze(calls[c].health_data)
                 /\ r.results.anomalies.analysis =
                        AnomalyDetectionAgent_analyze(calls[c].health_data)
                 /\ {"insights", "wellness_score", "ai_powered"} \subseteq DOMAIN analysis
                 /\ r.summary.wellness_score = analysis.wellness_score
                 /\ LLMPathFailed(c) =>
                       /\ analysis.ai_powered = FALSE
                       /\ analysis = _basic_analysis(calls[c].combined_data)

\* a call ended normally although the completion call raised
C2_Witness ==
    \E c \in Calls :
        /\ calls[c].pc = "done"
        /\ calls[c].llm = "called"
        /\ calls[c].completion.raises
        /\ calls[c].returned.results.insights.analysis.ai_powered = FALSE

\* C3: every session result in session_memory holds trend, anomaly and
\* insight results of one and the same input, also when two calls interleave;
\* session_memory holds one result per call that ended normally and nothing
\* of a call that failed.
C3_SingleSnapshot ==
    /\ \A i \in 1..Len(session_memory) :
          LET r == session_memory[i].results
              d == r.trends.input_data
          IN /\ d \in OrchInputs
             /\ r.trends.analysis = TrendAnalysisAgent_analyze(d)
             /\ r.anomalies.input_data = d
             /\ r.anomalies.analysis = AnomalyDetectionAgent_analyze(d)
             /\ r.insights.input_data = CombinedData(d, r.trends, r.anomalies)
             /\ \E k \in OrchCompletions :
                   r.insights.analysis =
                       InsightGeneratorAgent_analyze(r.insights.input_data, k).analysis
    /\ Len(session_memory) = Cardinality({c \in Calls : calls[c].pc = "done"})
    /\ \A c \in Calls :
          calls[c].pc = "done" =>
              /\ calls[c].returned \in Range(session_memory)
              /\ calls[c].returned.results.trends.input_data = calls[c].health_data

\* two calls with different inputs interleaved (the Trend Detector served them
\* in the other order than they ended) and both results are stored
C3_Witness ==
    /\ Len(session_memory) = 2
    /\ Len(trend_memory) = 2
    /\ session_memory[1].results.trends.input_data # session_memory[2].results.trends.input_data
    /\ trend_memory[1].input_data = session_memory[2].results.trends.input_data

\* C4: the LLM Insight Agent is invoked only after the Trend Detector and the
\* Anomaly Detector of the same call have completed, and its context holds
\* the trends and the anomalies of exactly those two runs.
C4_InsightAfterDetectors ==
    \A c \in Calls :
        calls[c].llm # "none" =>
            /\ calls[c].pc \in {"llm_wait", "done"}
            /\ LocalTrendResult(c) \in Range(trend_memory)
            /\ LocalAnomalyResult(c) \in Range(anomaly_memory)
            /\ LocalTrendResult(c).input_data = calls[c].health_data
            /\ LocalAnomalyResult(c).input_data = calls[c].health_data
            /\ calls[c].combined_data.agent_results.trends
                   = TrendAnalysisAgent_analyze(calls[c].health_data).trends
            /\ calls[c].combined_data.agent_results.anomalies
                   = AnomalyDetectionAgent_analyze(calls[c].health_data).anomalies

\* the completion call of a call with trends and anomalies is in flight
C4_Witness ==
    \E c \in Calls :
        /\ calls[c].pc = "llm_wait"
        /\ calls[c].combined_data.agent_results.anomalies # <<>>
        /\ DOMAIN calls[c].combined_data.agent_results.trends # {}

\* C5: the wellness_score in the summary of every session result is a number
\* in [0,100], the one _calculate_wellness_score gives for the Summary of
\* that run, on the LLM-success path as on the fallback path.
C5_WellnessFromSummary ==
    \A i \in 1..Len(session_memory) :
        LET score == session_memory[i].summary.wellness_score
            summary == Get(session_memory[i].results.trends.input_data, "summary", NoValue)
        IN /\ score.kind = "num"
           /\ 0 <= score.n /\ score.n <= Milli(100)
           /\ score.n = 100 * _calculate_wellness_score(summary)

----------------------------------------------------------------------------
(* Properties of the session service and the memory manager *)

StoredIds == {r.session_id : r \in sessions_table}

\* C6: create_session returns an id no active session has, also for the same
\* user within one second, and overwrites no earlier session: every session
\* that was active before the call is still the same session after it.
C6_UniqueSessionIds ==
    [][\A u \in Users, d \in SessionData :
          create_session(u, d) =>
              /\ SessionId(u, now) \notin DOMAIN active_sessions
              /\ \A sid \in DOMAIN active_sessions :
                    get_session(sid)' = get_session(sid)]_vars

\* what update_session_state, pause_session and resume_session may do to a
\* known session: last_activity becomes the current time, nothing but status
\* and last_activity changes, no other session and no Session record changes
TouchesOnlyStatus(sid) ==
    /\ DOMAIN session_state' = DOMAIN session_state
    /\ session_state'[sid].last_activity = now
    /\ DOMAIN session_state'[sid] = DOMAIN session_state[sid]
    /\ \A k \in DOMAIN session_state[sid] \ {"status", "last_activity"} :
          session_state'[sid][k] = session_state[sid][k]
    /\ \A other \in DOMAIN session_state \ {sid} :
          session_state'[other] = session_state[other]
    /\ active_sessions' = active_sessions
    /\ sessions_table' = sessions_table

\* C7: update_session_state, pause_session and resume_session on a known
\* session set its last_activity to the current time and change only its
\* status and last_activity; on an unknown id they change nothing.
C7_TouchFrame ==
    [][\A sid \in CandidateIds :
          (\/ \E upd \in SessionUpdates : update_session_state(sid, upd)
           \/ pause_session(sid)
           \/ resume_session(sid)) =>
              IF sid \in DOMAIN session_state
              THEN TouchesOnlyStatus(sid)
              ELSE UNCHANGED <<active_sessions, session_state, sessions_table,
                               user_patterns>>]_vars

\* C8: every session cleanup_expired_sessions removes from the active set
\* has been finalized before, that is, has its row in the sessions table.
C8_CleanupOnlyFinalized ==
    [][\A h \in CleanupHours :
          cleanup_expired_sessions(h) =>
              (DOMAIN active_sessions \ DOMAIN active_sessions') \subseteq StoredIds]_vars

\* the row of table sessions that holds exactly this session
IsRowOf(r, session) ==
    /\ r.session_id = session.session_id
    /\ r.user_id = session.user_id
    /\ r.timestamp = IsoFormat(session.timestamp)
    /\ r.data_summary.json = session.data_summary
    /\ r.analysis_results.json = session.analysis_results
    /\ r.wellness_score = session.wellness_score
    /\ r.recommendations.json = session.recommendations

\* C9: finalize_session of an active session writes that session under its
\* session_id and leaves the rows of other ids, active_sessions and
\* session_state as they were, so get_session still returns the session;
\* finalize_session of an id that is not active writes nothing.
C9_FinalizeFrame ==
    [][\A sid \in CandidateIds :
          finalize_session(sid) =>
              /\ UNCHANGED <<active_sessions, session_state>>
              /\ IF sid \in DOMAIN active_sessions
                 THEN /\ \E r \in sessions_table' :
                            /\ IsRowOf(r, active_sessions[sid])
                            /\ r.session_id = sid
                      /\ get_session(sid)' = active_sessions[sid]
                      /\ {r \in sessions_table' : r.session_id # sid}
                            = {r \in sessions_table : r.session_id # sid}
                 ELSE UNCHANGED <<sessions_table, user_patterns>>]_vars

\* an active session has been finalized: its row is stored and it is still
\* active
C9_Witness ==
    \E sid \in DOMAIN finalized :
        /\ sid \in DOMAIN active_sessions
        /\ finalized[sid].session = active_sessions[sid]
        /\ \E r \in sessions_table : IsRowOf(r, active_sessions[sid])

\* C10: the sessions table holds exactly one row per finalized session id,
\* the row of the session stored last under that id, so the number of rows is
\* the number of distinct finalized ids; finalizing a session again that was
\* already stored leaves the table as it was after the first time.
C10_FinalizeIdempotent ==
    /\ [](/\ Cardinality(sessions_table) = Cardinality(DOMAIN finalized)
          /\ \A sid \in DOMAIN finalized :
                \E r \in sessions_table :
                    /\ IsRowOf(r, finalized[sid].session)
                    /\ \A q \in sessions_table : q.session_id = sid => q = r)
    /\ [][\A sid \in DOMAIN finalized :
             (/\ finalize_session(sid)
              /\ sid \in DOMAIN active_sessions
              /\ active_sessions[sid] = finalized[sid].session)
                 => sessions_table' = sessions_table]_vars

\* one session has been finalized twice and the table holds its one row
C10_Witness ==
    \E sid \in DOMAIN finalized :
        /\ finalized[sid].times >= 2
        /\ Cardinality({r \in sessions_table : r.session_id = sid}) = 1

\* C11: cleanup_expired_sessions(hours) removes exactly the sessions whose
\* last_activity is earlier than now minus hours, from both maps, leaves every
\* other session and the tables as they were, and returns the number of
\* sessions it removed; get_session of a removed id returns nothing.
C11_CleanupExact ==
    [][\A h \in CleanupHours :
          cleanup_expired_sessions(h) =>
              LET old == {sid \in DOMAIN active_sessions :
                             session_state[sid].last_activity < now - h * TicksPerHour}
              IN /\ DOMAIN active_sessions' = DOMAIN active_sessions \ old
                 /\ DOMAIN session_state' = DOMAIN session_state \ old
                 /\ \A sid \in DOMAIN active_sessions \ old :
                       /\ active_sessions'[sid] = active_sessions[sid]
                       /\ session_state'[sid] = session_state[sid]
                 /\ \A sid \in old : get_session(sid)' = NoValue
                 /\ cleanup_expired_sessions_returns(h) = Cardinality(old)
                 /\ UNCHANGED <<sessions_table, user_patterns>>]_vars

\* a cleanup has removed one session and kept another
C11_Witness ==
    /\ evicted # {}
    /\ DOMAIN active_sessions # {}
    /\ \A sid \in evicted : get_session(sid) = NoValue

\* the sessions finalize_session stored, as they were stored last
StoredSessions == {finalized[sid].session : sid \in DOMAIN finalized}

\* C12: get_user_history(user_id, days) returns exactly the stored sessions
\* of that user whose timestamp is not older than now minus days, each once
\* and with its stored content, the newest first; no session of another user
\* and no session that was never finalized is returned.
C12_HistoryExact ==
    \A u \in Users, d \in HistoryDays :
        LET history == get_user_history(sessions_table, u, d)
            expected == {x \in StoredSessions :
                            x.user_id = u /\ x.timestamp >= now - d * 24 * TicksPerHour}
            SessionOf(i) == finalized[history[i].session_id].session
        IN /\ Len(history) = Cardinality(expected)
           /\ \A i \in 1..Len(history) :
                 /\ history[i].session_id \in DOMAIN finalized
                 /\ SessionOf(i) \in expected
                 /\ history[i].user_id = u
                 /\ history[i].data_summary = SessionOf(i).data_summary
                 /\ history[i].analysis_results = SessionOf(i).analysis_results
                 /\ history[i].wellness_score = SessionOf(i).wellness_score
                 /\ history[i].recommendations = SessionOf(i).recommendations
           /\ \A i, j \in 1..Len(history) :
                 i < j => SessionOf(i).timestamp > SessionOf(j).timestamp

\* a user has two stored sessions: the history of 30 days returns both, the
\* newer one first, and the history of one day only the newer one
C12_Witness ==
    \E u \in Users :
        /\ Len(get_user_history(sessions_table, u, 30)) = 2
        /\ Len(get_user_history(sessions_table, u, 1)) = 1
        /\ get_user_history(sessions_table, u, 1)[1]
              = get_user_history(sessions_table, u, 30)[1]

----------------------------------------------------------------------------
(* Properties of the Trend Detector, the Anomaly Detector and the Wellness *)
(* Scorer                                                                  *)

Tracked == {"steps", "heart_rate", "sleep", "water"}

\* the positions of the observations of a metric in a timeseries
Observations(timeseries, metric) ==
    {i \in 1..Len(timeseries) : timeseries[i].metric = metric}

\* C13: whenever the Trend Detector returns, its output has an entry for a
\* tracked metric exactly when the series holds at least 2 observations of
\* it; a metric with 0 or 1 observation is left out and never is the reason
\* of an error, whatever its one record holds.
C13_TrendNeedsTwo ==
    r_call = "trend" =>
        LET timeseries == r_input.timeseries
        IN /\ r_output.raised =>
                 \E m \in Tracked :
                     /\ Cardinality(Observations(timeseries, m)) >= 2
                     /\ \E i \in Observations(timeseries, m) : timeseries[i].vkind # "num"
           /\ ~r_output.raised =>
                 DOMAIN r_output.analysis.trends =
                     {m \in Tracked : Cardinality(Observations(timeseries, m)) >= 2}

\* the detector returned for a series with two observations of one metric,
\* one observation of another (one without a value) and none of the others
C13_Witness ==
    /\ r_call = "trend"
    /\ ~r_output.raised
    /\ DOMAIN r_output.analysis.trends = {"steps"}
    /\ \E i \in Observations(r_input.timeseries, "sleep") :
          r_input.timeseries[i].vkind = "missing"

\* the day of a record as a number of days
DayNumber(day) == IF day = Day1 THEN 1 ELSE 2

\* C14: for a metric with at least 2 observations, on different days, the
\* Trend Detector reports increasing when the value of the latest day
\* exceeds the value of the earliest day and decreasing otherwise, in
\* whatever order the records are passed.
C14_TrendChronological ==
    (r_call = "trend" /\ ~r_output.raised) =>
        \A m \in DOMAIN r_output.analysis.trends :
            LET timeseries == r_input.timeseries
                obs == Observations(timeseries, m)
                earliest == CHOOSE i \in obs :
                               \A j \in obs : DayNumber(timeseries[i].day)
                                                 <= DayNumber(timeseries[j].day)
                latest == CHOOSE i \in obs :
                             \A j \in obs : DayNumber(timeseries[j].day)
                                               <= DayNumber(timeseries[i].day)
            IN (\A i, j \in obs : i # j => timeseries[i].day # timeseries[j].day) =>
                   r_output.analysis.trends[m].trend =
                       IF timeseries[latest].value > timeseries[earliest].value
                       THEN "increasing" ELSE "decreasing"

\* the first and the last position of a non-empty set of positions
FirstOf(positions) == CHOOSE i \in positions : \A j \in positions : i <= j
LastOf(positions) == CHOOSE i \in positions : \A j \in positions : j <= i

\* (last - first) / first * 100 rounded to 2 decimals, in hundredths, first # 0
PercentChange(first, last) ==
    IF first > 0 THEN RoundDiv((last - first) * 10000, first)
    ELSE RoundDiv((first - last) * 10000, -first)

\* C15: for every metric with at least 2 observations change_percent is
\* (last - first) / first * 100 rounded to 2 decimals whenever first is not
\* 0, and 0 when first is 0; steps 8500 then 6500 give -23.53, decreasing.
C15_ChangePercent ==
    (r_call = "trend" /\ ~r_output.raised) =>
        /\ \A m \in DOMAIN r_output.analysis.trends :
              LET timeseries == r_input.timeseries
                  first == timeseries[FirstOf(Observations(timeseries, m))].value
                  last == timeseries[LastOf(Observations(timeseries, m))].value
              IN r_output.analysis.trends[m].change_percent =
                     IF first = 0 THEN 0 ELSE PercentChange(first, last)
        /\ r_input.timeseries = << Record(Day1, "steps", "num", Tenths(8500)),
                                   Record(Day2, "steps", "num", Tenths(6500)) >>
              => /\ r_output.analysis.trends["steps"].change_percent = -2353
                 /\ r_output.analysis.trends["steps"].trend = "decreasing"

\* the severity the thresholds give a record with a value, or "none"
SeverityOf(record) ==
    IF record.metric = "heart_rate" /\ record.value > 1000 THEN "high"
    ELSE IF record.metric = "sleep" /\ record.value < 50 THEN "medium"
    ELSE IF record.metric = "steps" /\ record.value < 30000 THEN "low"
    ELSE "none"

\* the k-th position, in ascending order, of a set of positions
KthOf(positions, k) ==
    CHOOSE i \in positions : Cardinality({j \in positions : j < i}) = k - 1

\* C16: for a series of records with a value the Anomaly Detector outputs
\* one anomaly for each record with heart_rate > 100 (high), sleep < 5
\* (medium) or steps < 3000 (low), with the day, metric and value of that
\* record, and none for any other record, the values at the thresholds and
\* every water record included; there are never more anomalies than records.
C16_AnomalyPerRecord ==
    (/\ r_call = "anomaly"
     /\ \A i \in 1..Len(r_input.timeseries) : r_input.timeseries[i].vkind = "num") =>
        LET timeseries == r_input.timeseries
            anomalies == r_output.analysis.anomalies
            triggering == {i \in 1..Len(timeseries) : SeverityOf(timeseries[i]) # "none"}
        IN /\ ~r_output.raised
           /\ Len(anomalies) = Cardinality(triggering)
           /\ Len(anomalies) <= Len(timeseries)
           /\ \A k \in 1..Len(anomalies) :
                 LET record == timeseries[KthOf(triggering, k)]
                 IN /\ anomalies[k].date = record.day
                    /\ anomalies[k].metric = record.metric
                    /\ anomalies[k].value = record.value
                    /\ anomalies[k].severity = SeverityOf(record)

\* one record of a series is flagged, the heart rate of exactly 100 and a
\* water record are not
C16_Witness ==
    /\ r_call = "anomaly"
    /\ Len(r_output.analysis.anomalies) = 1
    /\ \E i, j \in 1..Len(r_input.timeseries) :
          /\ r_input.timeseries[i].metric = "water"
          /\ r_input.timeseries[j].metric = "heart_rate"
          /\ r_input.timeseries[j].value = 1000

\* a timeseries with its records in the order p
Permuted(timeseries, p) == [i \in 1..Len(timeseries) |-> timeseries[p[i]]]

\* C17: whatever the order of the records, the Anomaly Detector gives the
\* same set of anomalies and the same risk_score (and raises for the same
\* series).
C17_AnomalyOrderIndependent ==
    r_call = "anomaly" =>
        \A p \in Permutations(1..Len(r_input.timeseries)) :
            LET data == [timeseries |-> Permuted(r_input.timeseries, p)]
            IN /\ AnomalyDetectionAgent_raises(data) = r_output.raised
               /\ ~r_output.raised =>
                     /\ Range(AnomalyDetectionAgent_analyze(data).anomalies)
                            = Range(r_output.analysis.anomalies)
                     /\ AnomalyDetectionAgent_analyze(data).risk_score
                            = r_output.analysis.risk_score

\* a series of three records gave two different anomalies, not the first two
\* records of it
C17_Witness ==
    /\ r_call = "anomaly"
    /\ Len(r_input.timeseries) = 3
    /\ Len(r_output.analysis.anomalies) = 2
    /\ r_output.analysis.anomalies[1] # r_output.analysis.anomalies[2]
    /\ SeverityOf(r_input.timeseries[2]) = "none"

\* C18: for every Summary, with averages missing, zero, negative or very
\* large, the Wellness Scorer returns a value in [0,100] and each of its four
\* sub-scores lies in [0,25]; steps 10000, sleep 8, heart rate 70 and water
\* 2000 give 100, four zeros give a value >= 0; the score is the one of this
\* Summary alone, whatever was scored before.
C18_WellnessBounded ==
    r_call = "wellness" =>
        LET score == r_output.analysis
            steps == Get(r_input, "steps_avg_7d", 0)
            sleep == Get(r_input, "sleep_avg_7d", 0)
            hr == Get(r_input, "heart_rate_avg_7d", 0)
            water == Get(r_input, "water_avg_7d", 0)
        IN /\ ~r_output.raised
           /\ 0 <= score /\ score <= 1000
           /\ \A sub \in {StepsScore(steps), SleepScore(sleep),
                          HeartRateScore(hr), WaterScore(water)} :
                 0 <= sub /\ sub <= 25 * 5000
           /\ (steps = 100000 /\ sleep = 80 /\ hr = 700 /\ water = 20000) => score = 1000
           /\ (steps = 0 /\ sleep = 0 /\ hr = 0 /\ water = 0) => score >= 0
           /\ score = _calculate_wellness_score(r_input)

\* a Summary with a negative and a very large average has been scored
C18_Witness ==
    /\ r_call = "wellness"
    /\ DOMAIN r_input = SummaryKeys
    /\ r_input.steps_avg_7d < 0
    /\ r_input.sleep_avg_7d = 10000
    /\ r_output.analysis >= 0

\* x, or 0 for a negative x where the table floors at 0
Floored(x, floors) == IF floors /\ x < 0 THEN 0 ELSE x

\* The table of sub-scores, in points times 5000, of averages in tenths:
\* steps >= 10000 -> 25, >= 8000 -> 20, >= 5000 -> 15, else steps/500;
\* sleep in [7,9] -> 25, in [6,7) or (9,10] -> 20, else 25 - |sleep-8|*5;
\* heart_rate in [60,80] -> 25, in [50,60) or (80,90] -> 20, else
\* 25 - |hr-70|*2; water >= 2000 -> 25, >= 1500 -> 20, else water/100.
\* floors names the sub-scores whose last case is floored at 0.
TableScore(summary, floors) ==
    LET steps == Get(summary, "steps_avg_7d", 0)
        sleep == Get(summary, "sleep_avg_7d", 0)
        hr == Get(summary, "heart_rate_avg_7d", 0)
        water == Get(summary, "water_avg_7d", 0)
        steps_points ==
            IF steps >= 100000 THEN 125000
            ELSE IF steps >= 80000 THEN 100000
            ELSE IF steps >= 50000 THEN 75000
            ELSE Floored(steps, "steps" \in floors)
        sleep_points ==
            IF 70 <= sleep /\ sleep <= 90 THEN 125000
            ELSE IF (60 <= sleep /\ sleep < 70) \/ (90 < sleep /\ sleep <= 100) THEN 100000
            ELSE Floored(125000 - 2500 * Abs(sleep - 80), "sleep" \in floors)
        hr_points ==
            IF 600 <= hr /\ hr <= 800 THEN 125000
            ELSE IF (500 <= hr /\ hr < 600) \/ (800 < hr /\ hr <= 900) THEN 100000
            ELSE Floored(125000 - 1000 * Abs(hr - 700), "heart_rate" \in floors)
        water_points ==
            IF water >= 20000 THEN 125000
            ELSE IF water >= 15000 THEN 100000
            ELSE Floored(5 * water, "water" \in floors)
    IN steps_points + sleep_points + hr_points + water_points

\* C19, as the code has it: the score is the sum of the four sub-scores of
\* the table (the mean of the four, each taken as a share of its 25 points,
\* in percent), rounded to one decimal, and the last case of every one of
\* the four sub-scores is floored at 0.
C19_WellnessTableFloored ==
    r_call = "wellness" =>
        r_output.analysis = RoundDiv(TableScore(r_input, Tracked), 500)

\* C19, as stated: the same table with only the sleep sub-score floored at 0.
C19_WellnessTable ==
    r_call = "wellness" =>
        r_output.analysis = RoundDiv(TableScore(r_input, {"sleep"}), 500)

\* a Summary whose steps and heart rate fall into the last case of their
\* sub-score has been scored
C19_Witness ==
    /\ r_call = "wellness"
    /\ DOMAIN r_input = SummaryKeys
    /\ r_input.steps_avg_7d = 12340
    /\ r_input.heart_rate_avg_7d = 1200
    /\ r_input.water_avg_7d = 10000

----------------------------------------------------------------------------
(* Properties of the fallback of generate_health_insights *)

\* C20: when the completion call raises, generate_health_insights returns
\* status error with insights computed from the Summary alone: wellness_score
\* is steps/100 + sleep*10 + (100 - heart_rate) clamped to [0,100], and the
\* recommendations are those of the checks steps < 8000, sleep < 7 and
\* heart_rate > 85, at most 3; when the completion call returns, the status
\* is success.
C20_FallbackFromSummary ==
    [][/\ GeminiCompletionFails =>
             LET summary == Get(g_data, "summary", << >>)
                 steps == Get(summary, "steps_avg_7d", 0)
                 sleep == Get(summary, "sleep_avg_7d", 0)
                 hr == Get(summary, "heart_rate_avg_7d", 0)
                 raw == steps + 1000 * sleep + (100000 - 100 * hr)
                 recs == g_ret'.insights.recommendations.items
             IN /\ g_ret'.status = "error"
                /\ g_ret'.insights.wellness_score.kind = "num"
                /\ g_ret'.insights.wellness_score.n =
                       IF raw < 0 THEN 0 ELSE IF raw > 100000 THEN 100000 ELSE raw
                /\ Len(recs) <= 3
                /\ (steps < 80000) = (<<"Increase daily steps to 8,000+">> \in Range(recs))
                /\ (sleep < 70) = (<<"Aim for 7-9 hours of sleep">> \in Range(recs))
                /\ (hr > 850) = (<<"Monitor heart rate patterns">> \in Range(recs))
                /\ Len(recs) = Cardinality(Range(recs))
       /\ (g_pc = "awaiting" /\ g_pc' = "returned" /\ ~GeminiCompletionFails) =>
             g_ret'.status = "success"]_vars

\* the completion call raised for a Summary whose sum is inside (0,100) and
\* that fails all three checks
C20_Witness ==
    /\ g_pc = "returned"
    /\ g_ret.status = "error"
    /\ g_ret.insights.wellness_score.n = 40000
    /\ Len(g_ret.insights.recommendations.items) = 3

----------------------------------------------------------------------------
(* Properties of the two maps of InMemorySessionService *)

\* C27: in every reachable state the active-session map and the
\* session-state map have the same keys, and every state entry carries a
\* status and a last-activity timestamp.
C27_SameKeys ==
    /\ DOMAIN active_sessions = DOMAIN session_state
    /\ \A sid \in DOMAIN session_state :
          {"status", "last_activity"} \subseteq DOMAIN session_state[sid]

\* a cleanup has removed one session while a paused one is still stored
C27_Witness ==
    /\ evicted # {}
    /\ \E sid \in DOMAIN active_sessions :
          sid \notin evicted /\ session_state[sid].status = "paused"

----------------------------------------------------------------------------
(* Properties of _parse_gemini_response *)

\* the part of a response between its first '{' and its last '}'
BracedPart(text) == Slice(text, Find(text, "{"), RFind(text, "}") + 1)

\* the response holds a '{' and what follows it up to the last '}' decodes
Decodable(text) == Find(text, "{") # -1 /\ JsonDecodes(BracedPart(text))

HasRecommend(line) == LineHas(line, "recommend")
HasRisk(line) == LineHas(line, "risk")
HasPositive(line) == LineHas(line, "positive") \/ LineHas(line, "good")
OnlyRisk(line) == HasRisk(line) /\ ~HasRecommend(line)
OnlyPositive(line) == HasPositive(line) /\ ~HasRecommend(line) /\ ~HasRisk(line)

\* C26, as amended: a response that decodes between its first '{' and its
\* last '}' is returned as the decoded object; any other response is
\* scanned line by line and every line goes to the first class whose
\* keyword it contains, in the order recommend, risk, positive/good: a
\* line with 'recommend' is a recommendation only, a line with 'risk' and
\* without 'recommend' is a risk, a line with 'positive' or 'good' and
\* neither of the two is a positive pattern.
C26_ParserFirstKeyword ==
    [][\A t \in Texts :
          GeminiCompletionReturns(t) =>
             LET insights == g_ret'.insights
                 lines == SplitLines(t)
             IN IF Decodable(t)
                THEN insights = JsonLoads(BracedPart(t))
                ELSE /\ insights.recommendations.items = SelectSeq(lines, HasRecommend)
                     /\ insights.risks.items = SelectSeq(lines, OnlyRisk)
                     /\ insights.positive_patterns.items = SelectSeq(lines, OnlyPositive)]_vars

\* C26: a response that does not decode is scanned line by line; every line
\* containing 'recommend' is listed as a recommendation, every line
\* containing 'risk' as a risk and every line containing 'positive' or
\* 'good' as a positive pattern; a response that decodes is returned as the
\* decoded object.
C26_ParserEveryKeyword ==
    [][\A t \in Texts :
          GeminiCompletionReturns(t) =>
             LET insights == g_ret'.insights
                 lines == SplitLines(t)
             IN IF Decodable(t)
                THEN insights = JsonLoads(BracedPart(t))
                ELSE /\ insights.recommendations.items = SelectSeq(lines, HasRecommend)
                     /\ insights.risks.items = SelectSeq(lines, HasRisk)
                     /\ insights.positive_patterns.items = SelectSeq(lines, HasPositive)]_vars

\* the parser returned the scan of a response whose one line holds both
\* 'recommend' and 'risk': the line is a recommendation and no risk
C26_Witness ==
    /\ g_pc = "returned"
    /\ g_ret.status = "success"
    /\ {"recommendations", "risks"} \subseteq DOMAIN g_ret.insights
    /\ g_ret.insights.recommendations = JList(<< <<"recommend", "risk">> >>)
    /\ g_ret.insights.risks = JList(<<>>)

----------------------------------------------------------------------------
(* Properties of trace_operation and get_system_health *)

\* the wrapper calls that ended in the way pc, for one operation name
EndedCalls(operation_name, pc) ==
    {i \in DOMAIN traced :
        traced[i].operation_name = operation_name /\ traced[i].pc = pc}

\* C29: once a wrapper call has returned, its span has status 'completed'
\* and one success increment was recorded; once it has raised, its span
\* has status 'error', one error increment was recorded and the exception
\* is the one the wrapped function raised; in both cases the span is no
\* longer in active_spans, and active_spans holds only ids of started,
\* unfinished spans.
C29_TracedOutcome ==
    /\ \A i \in DOMAIN traced :
          LET call == traced[i]
          IN /\ call.pc = "returned" =>
                   /\ spans[call.span_id].status = "completed"
                   /\ call.span_id \notin Range(active_spans)
             /\ call.pc = "raised" =>
                   /\ spans[call.span_id].status = "error"
                   /\ call.exc # "none"
                   /\ call.span_id \notin Range(active_spans)
    /\ \A op \in OperationNames :
          /\ Get(counters, CounterKey("operations_total", OperationTags(op, "success")), 0)
                = Cardinality(EndedCalls(op, "returned"))
          /\ Get(counters, CounterKey("operations_total", OperationTags(op, "error")), 0)
                = Cardinality(EndedCalls(op, "raised"))
    /\ \A k \in 1..Len(active_spans) :
          /\ active_spans[k] \in DOMAIN spans
          /\ spans[active_spans[k]].status = "started"
          /\ spans[active_spans[k]].end_time = NoValue

\* the traced operations that ended within the last hour, and those of
\* them that raised
RecentOperations ==
    {i \in DOMAIN traced : traced[i].pc # "awaiting" /\ traced[i].end_time > now - Hours(1)}
RecentFailures == {i \in RecentOperations : traced[i].pc = "raised"}

\* C30: get_system_health reports total_operations = the number of traced
\* operations executed in the recent window, success_rate = 1 - failed /
\* all of them (1 when there are none), and system_status 'healthy' above
\* 0.95, 'degraded' above 0.8 and 'unhealthy' otherwise.
C30_SystemHealth ==
    [][SystemHealthCall =>
          LET all == Cardinality(RecentOperations)
              failed == Cardinality(RecentFailures)
              report == system_health'
          IN /\ report.total_operations = all
             /\ report.success_rate =
                   IF all = 0 THEN 1000 ELSE RoundDiv(1000 * (all - failed), all)
             /\ report.system_status =
                   IF all = 0 \/ 100 * (all - failed) > 95 * all THEN "healthy"
                   ELSE IF 10 * (all - failed) > 8 * all THEN "degraded"
                   ELSE "unhealthy"]_vars

----------------------------------------------------------------------------
(* Properties of the /ai/* routes *)

\* the completion service gave nothing an endpoint can use: it is
\* unavailable, it raised, or its text has no start marker or does not
\* decode between the markers
NoUsableCompletion ==
    \/ nav_completion.outcome \in {"unavailable", "raised"}
    \/ /\ nav_completion.outcome = "text"
       /\ LET text == Strip(nav_completion.text, {"sp"})
              start == Find(text, StartMarker(nav_request.endpoint))
              end == RFind(text, EndMarker(nav_request.endpoint)) + 1
          IN start = -1 \/ ~NavJsonDecodes(Slice(text, start, end))

\* C22: every /ai/* endpoint answers 200 whatever the completion service
\* does, and when the service is unavailable, raises, or returns a text
\* without a JSON start marker or one that does not decode, the content is
\* exactly what the endpoint's mock generator returns for the request.
C22_NavbarDegrades ==
    nav_pc = "answered" =>
       /\ nav_response.status_code = 200
       /\ NoUsableCompletion =>
             /\ ~MockGenerator(nav_request).raises
             /\ nav_response.content = MockGenerator(nav_request).value

----------------------------------------------------------------------------

(* Properties of run_agents_in_parallel and of the routes of main.py *)

\* the calls of run_agents_in_parallel whose await of gather has ended
Gathered ==
    { r \in Requests : /\ requests[r].pc = "answered"
                       /\ "agents" \in DOMAIN requests[r] }

\* C21: the joint wait of run_agents_in_parallel ends only when both agents
\* have finished: an exception of one does not end the wait while the other
\* is still running.  When both succeed, the results are the LLM agent's
\* result and then the evaluator's, whatever the order they finished in.
C21_JointWait ==
    \A r \in Gathered :
        LET agents == requests[r].agents
        IN /\ agents.llm.state = "returned"
           /\ agents.evaluator.state \in {"returned", "raised"}
           /\ agents.gather.state = "returned" =>
                 agents.gather.results = <<agents.llm.value, agents.evaluator.value>>

Apology ==
    Ok([response |-> "I'm having trouble right now. Please try again later.",
        error |-> "str(e)"])

\* a step of the chat handler of request r
ChatStep(r) ==
    /\ requests'[r] # requests[r]
    /\ requests'[r].pc # "idle"
    /\ requests'[r].kind = "chat"

\* the answer of a chat whose completion call was made, and the stores
ChatCalled(r) ==
    /\ UNCHANGED <<DATA_STORE, SESSIONS, METRICS>>
    /\ requests[r].pc = "idle" /\ requests'[r].pc = "chatting" =>
          LET data_id == requests'[r].request.data_id
          IN requests'[r].context_prompt # <<>> <=>
                (data_id # NoDataId /\ data_id \in DOMAIN DATA_STORE)
    /\ requests'[r].pc = "answered" =>
          /\ requests'[r].response.status_code = 200
          /\ requests'[r].completion = "raised" => requests'[r].response = Apology
          /\ requests'[r].completion = "text" =>
                requests'[r].response.body =
                    [response |-> requests'[r].text,
                     has_context |-> requests[r].context_prompt # <<>>]

\* C23 as stated: POST /chat never answers with an HTTP error.  When the
\* completion service fails (it is not available, or its call raises) the
\* answer is the fixed apology with an 'error' field; when it succeeds the
\* answer carries 'response' and 'has_context', true exactly when a data_id
\* was given and is in DATA_STORE.  No step of a chat changes DATA_STORE,
\* SESSIONS or METRICS.
C23_ChatFailsWithApology ==
    [][\A r \in Requests :
          ChatStep(r) =>
             /\ ChatCalled(r)
             /\ requests'[r].pc = "answered" /\ requests'[r].completion = "unavailable" => requests'[r].response = Apology
      ]_vars

\* C23: POST /chat never answers with an HTTP error.  Without the completion
\* library the answer is only the text 'AI chat is not available right now.';
\* when the completion call raises it is the fixed apology with an 'error'
\* field; when the call succeeds it carries 'response' and 'has_context',
\* true exactly when a data_id was given and was in DATA_STORE when the
\* request was handled.  No step of a chat changes DATA_STORE, SESSIONS or
\* METRICS.
C23_ChatAnswers ==
    [][\A r \in Requests :
          ChatStep(r) =>
             /\ ChatCalled(r)
             /\ requests'[r].pc = "answered" /\ requests'[r].completion = "unavailable" =>
                   requests'[r].response =
                       Ok([response |-> "AI chat is not available right now."])
      ]_vars

\* a chat about stored data was answered with the text of the service, and
\* another was answered without a completion call
C23_Witness ==
    /\ requests["request1"].pc = "answered"
    /\ requests["request1"].kind = "chat"
    /\ requests["request1"].completion = "text"
    /\ requests["request1"].response.body.has_context
    /\ requests["request2"].pc = "chatting"
    /\ requests["request2"].context_prompt = <<>>
    /\ requests["request2"].request.data_id # NoDataId

\* request r is answered in this step
AnsweredNow(r) ==
    /\ requests'[r] # requests[r]
    /\ requests'[r].pc = "answered"
    /\ "response" \in DOMAIN requests'[r]

\* C24: GET /data/{id}/summary, /trends and /anomalies answer 404 for an id
\* that is not in DATA_STORE; an upload that fails answers 400; and a request
\* answered with an error leaves DATA_STORE, SESSIONS and METRICS as they
\* were.
C24_ErrorsLeaveState ==
    [][\A r \in Requests :
          AnsweredNow(r) =>
             LET response == requests'[r].response
             IN /\ requests'[r].kind \in DataEndpoints =>
                      /\ response.status_code = 404 <=>
                            requests'[r].data_id \notin DOMAIN DATA_STORE
                      /\ response.status_code \in {200, 404}
                /\ requests'[r].kind = "upload" => response.status_code \in {200, 400}
                /\ response.status_code # 200 =>
                      UNCHANGED <<DATA_STORE, SESSIONS, METRICS>>
      ]_vars

\* with data stored, an upload failed after its agents had run and a GET
\* asked for an id that is not stored
C24_Witness ==
    /\ DATA_STORE # << >>
    /\ requests["request1"].pc = "answered"
    /\ requests["request1"].kind = "upload"
    /\ ~requests["request1"].file.malformed
    /\ requests["request1"].response.status_code = 400
    /\ requests["request2"].pc = "answered"
    /\ requests["request2"].kind = "trends"
    /\ requests["request2"].response.status_code = 404

\* the ids stored for a user, in the order they were stored
StoredFor(user_id) ==
    SelectSeq(store_log, LAMBDA data_id : DATA_STORE[data_id].user_id = user_id)

\* the session lists are the stored ids of each user, in the order stored
SessionsAreStoredIds ==
    /\ Range(store_log) = DOMAIN DATA_STORE
    /\ Len(store_log) = Cardinality(DOMAIN DATA_STORE)
    /\ DOMAIN SESSIONS \subseteq UserIds
    /\ \A user_id \in UserIds : Get(SESSIONS, user_id, <<>>) = StoredFor(user_id)
    /\ \A u1 \in DOMAIN SESSIONS, u2 \in DOMAIN SESSIONS :
          \A i \in DOMAIN SESSIONS[u1], j \in DOMAIN SESSIONS[u2] :
              SESSIONS[u1][i] = SESSIONS[u2][j] => u1 = u2 /\ i = j

\* C25: GET /sessions/{user_id} answers 200 with the data ids of that
\* user's stored uploads in the order they were stored, the empty list for a
\* user without uploads; every listed id is a key of DATA_STORE whose record
\* has that user_id, and no id is listed twice or under two users.
C25_SessionsInStoredOrder ==
    /\ []SessionsAreStoredIds
    /\ [][\A r \in Requests :
             AnsweredNow(r) /\ requests'[r].kind = "sessions" =>
                requests'[r].response =
                    Ok([user_id |-> requests'[r].user_id,
                        data_ids |-> StoredFor(requests'[r].user_id)])
         ]_vars

\* a user's two uploads were stored in the order uuid2, uuid1 and are
\* listed so, while a user without uploads is answered the empty list
C25_Witness ==
    /\ requests["request1"].pc = "answered"
    /\ requests["request1"].kind = "sessions"
    /\ requests["request1"].response.body.data_ids = <<"uuid2", "uuid1">>
    /\ requests["request2"].pc = "answered"
    /\ requests["request2"].kind = "sessions"
    /\ requests["request2"].user_id = "user789"
    /\ requests["request2"].response.body.data_ids = <<>>

\* the total number of ids over the session lists of users
RECURSIVE SessionIds(_)
SessionIds(users) ==
    IF users = {} THEN 0
    ELSE LET user_id == CHOOSE u \in users : TRUE
         IN Len(SESSIONS[user_id]) + SessionIds(users \ {user_id})

\* C28: the upload counter equals the number of entries of DATA_STORE and
\* the total number of ids over the session lists, also when uploads run
\* concurrently and when uploads fail; GET /metrics reports that counter;
\* the counter never decreases.
C28_CounterCountsStored ==
    /\ [](/\ METRICS.uploads = Cardinality(DOMAIN DATA_STORE)
          /\ METRICS.uploads = SessionIds(DOMAIN SESSIONS))
    /\ [][/\ METRICS'.uploads >= METRICS.uploads
          /\ \A r \in Requests :
                AnsweredNow(r) /\ requests'[r].kind = "metrics" =>
                   /\ requests'[r].response.status_code = 200
                   /\ requests'[r].response.body.uploads = Cardinality(DOMAIN DATA_STORE)
         ]_vars

\* two uploads that both began before either was stored have been stored,
\* and the counter is 2
C28_Witness ==
    /\ METRICS.uploads = 2
    /\ \A r \in Requests :
          /\ requests[r].pc = "answered"
          /\ requests[r].kind = "upload"
          /\ requests[r].response.status_code = 200
          /\ requests[r].stored_before = {}

====
